---- MODULE Spec2Model ----
(***************************************************************************)
(* A model of the Peplink warranty checker web application:                *)
(*   - the OTP login flow (POST /login, POST /login/otp, POST              *)
(*     /login/resend, GET /logout),                                        *)
(*   - the credential panel with encryption at rest (GET/POST /panel,      *)
(*     encrypt, decrypt),                                                  *)
(*   - the session-gated warranty routes (POST /warranty-check, results,   *)
(*     download),                                                          *)
(*   - account deletion, as the README describes it.                       *)
(* Node runs each synchronous handler body to completion, and the database *)
(* driver (better-sqlite3) is synchronous, so one handler's database and   *)
(* session writes are one atomic step.                                     *)
(***************************************************************************)
EXTENDS Integers, Sequences, FiniteSets, TLC

(***************************************************************************)
(* Bounds of the model.                                                    *)
(***************************************************************************)
\* The clock starts at Epoch and is advanced up to MaxNow (milliseconds).
Epoch == 1000
MaxNow == 61000
\* The block length of the scaled-down block cipher (AES: 16 bytes).
BlockSize == 2
\* Symbols per encoded digit of the scaled-down output encoding; a byte has
\* Radix * Radix values (base64 and AES: 64 symbols, 256 byte values).
Radix == 2
\* The longest plaintext / ciphertext input drawn in CryptoSpec.
MaxLen == 3

\* Date.now() advances by one of these amounts between two requests.
TickSteps == {30000}

Emails == {"a@x", "b@x"}
\* req.body.email: a known address, or absent/empty.
EmailInputs == Emails \cup {""}
\* uuid.v4().split('-')[0].toUpperCase(): upper-case hexadecimal.
Codes == {"AB", "CD"}
\* req.body.otp: a generated code, the same letters in lower case, or empty.
CodeInputs == Codes \cup {"ab", ""}
Sessions == {"s1", "s2"}

(***************************************************************************)
(* JavaScript values of credential fields.  A string is a sequence of      *)
(* code units 0..ByteMod-1 (an ASCII-like alphabet, on which the utf8      *)
(* encoder and decoder map a code unit to the byte of the same value).     *)
(***************************************************************************)
ByteMod == Radix * Radix
Byte == 0 .. (ByteMod - 1)
\* SQL NULL (a column no INSERT or UPDATE has set), read back as null.
Null == << -1 >>
\* A form field missing from req.body.
Undefined == << -2 >>
\* A req.body value that is no string (a number or array in a JSON body).
NotAString == << -3 >>

IsString(v) == \A i \in 1 .. Len(v) : v[i] \in Byte
\* !v for the values above.
Falsy(v) == v \in {<< >>, Null, Undefined}

(***************************************************************************)
(* cryptoUtils: encrypt / decrypt.  AES-256-CBC with one static key and    *)
(* IV, PKCS#7 padding, base64 output.  The cipher is scaled down: a block  *)
(* has BlockSize bytes, a byte has ByteMod values, the block cipher adds   *)
(* the key bytewise, CBC chaining adds the previous cipher block where AES *)
(* xors it, and an output digit has Radix values, two digits per byte.     *)
(***************************************************************************)
\* ENCRYPTION_KEY and IV: fixed for the life of the process.
ENCRYPTION_KEY == [i \in 1 .. BlockSize |-> (2 * i + 1) % ByteMod]
IV == [i \in 1 .. BlockSize |-> i % ByteMod]

BlockEncrypt(b, key) == [i \in 1 .. BlockSize |-> (b[i] + key[i]) % ByteMod]
BlockDecrypt(b, key) ==
  [i \in 1 .. BlockSize |-> (b[i] + ByteMod - key[i]) % ByteMod]
ChainIn(b, prev) == [i \in 1 .. BlockSize |-> (b[i] + prev[i]) % ByteMod]
ChainOut(b, prev) ==
  [i \in 1 .. BlockSize |-> (b[i] + ByteMod - prev[i]) % ByteMod]

\* A padding that adds nothing to an input that fills its last block.
Pkcs7Pad_NoFullBlock(bs) ==
  LET n == (BlockSize - (Len(bs) % BlockSize)) % BlockSize
  IN  bs \o [i \in 1 .. n |-> n]

\* PKCS#7: always 1..BlockSize bytes, each holding the pad length.
Pkcs7Pad(bs) ==
  LET n == BlockSize - (Len(bs) % BlockSize)
  IN  bs \o [i \in 1 .. n |-> n]

\* The pad of a decrypted final block is well formed.
Pkcs7Ok(bs) ==
  /\ Len(bs) > 0
  /\ bs[Len(bs)] \in 1 .. BlockSize
  /\ bs[Len(bs)] <= Len(bs)
  /\ \A i \in (Len(bs) - bs[Len(bs)] + 1) .. Len(bs) : bs[i] = bs[Len(bs)]

Pkcs7Unpad(bs) == SubSeq(bs, 1, Len(bs) - bs[Len(bs)])

RECURSIVE CbcEncrypt(_, _, _)
CbcEncrypt(bs, key, prev) ==
  IF Len(bs) = 0
  THEN << >>
  ELSE LET c == BlockEncrypt(ChainIn(SubSeq(bs, 1, BlockSize), prev), key)
       IN  c \o CbcEncrypt(SubSeq(bs, BlockSize + 1, Len(bs)), key, c)

RECURSIVE CbcDecrypt(_, _, _)
CbcDecrypt(bs, key, prev) ==
  IF Len(bs) = 0
  THEN << >>
  ELSE LET c == SubSeq(bs, 1, BlockSize)
       IN  ChainOut(BlockDecrypt(c, key), prev)
             \o CbcDecrypt(SubSeq(bs, BlockSize + 1, Len(bs)), key, c)

\* Output encoding of the cipher bytes ('base64'): two digits per byte.
RECURSIVE Base64Encode(_)
Base64Encode(bs) ==
  IF Len(bs) = 0
  THEN << >>
  ELSE << bs[1] \div Radix, bs[1] % Radix >> \o Base64Encode(Tail(bs))

\* Input decoding ('base64'): characters outside the alphabet are skipped,
\* an incomplete trailing group is dropped; it never throws.
RECURSIVE Base64Digits(_)
Base64Digits(cs) ==
  IF Len(cs) = 0
  THEN << >>
  ELSE IF cs[1] \in 0 .. (Radix - 1)
       THEN << cs[1] >> \o Base64Digits(Tail(cs))
       ELSE Base64Digits(Tail(cs))

RECURSIVE Base64Group(_)
Base64Group(ds) ==
  IF Len(ds) < 2
  THEN << >>
  ELSE << ds[1] * Radix + ds[2] >> \o Base64Group(SubSeq(ds, 3, Len(ds)))

Base64Decode(cs) == Base64Group(Base64Digits(cs))

\* encrypt(plaintext): '' for a falsy input; '' when the cipher throws (the
\* input is no string); else the encoded ciphertext of the padded input.
encrypt(plaintext) ==
  IF Falsy(plaintext)
  THEN << >>
  ELSE IF ~IsString(plaintext)
       THEN << >>
       ELSE Base64Encode(CbcEncrypt(Pkcs7Pad(plaintext), ENCRYPTION_KEY, IV))

\* A decrypt whose catch block hands back the stored value.
decrypt_ReturnsInput(ciphertext) ==
  IF Falsy(ciphertext)
  THEN << >>
  ELSE LET bs == Base64Decode(ciphertext)
       IN  IF Len(bs) = 0 \/ Len(bs) % BlockSize # 0
           THEN ciphertext
           ELSE LET pt == CbcDecrypt(bs, ENCRYPTION_KEY, IV)
                IN  IF Pkcs7Ok(pt) THEN Pkcs7Unpad(pt) ELSE ciphertext

\* decrypt(ciphertext): '' for a falsy input; '' when decipher.final throws
\* (wrong final block length, bad pad); else the unpadded plaintext.
decrypt(ciphertext) ==
  IF Falsy(ciphertext)
  THEN << >>
  ELSE LET bs == Base64Decode(ciphertext)
       IN  IF Len(bs) = 0 \/ Len(bs) % BlockSize # 0
           THEN << >>
           ELSE LET pt == CbcDecrypt(bs, ENCRYPTION_KEY, IV)
                IN  IF Pkcs7Ok(pt) THEN Pkcs7Unpad(pt) ELSE << >>

(***************************************************************************)
(* State.                                                                  *)
(***************************************************************************)
VARIABLES
  users,      \* the users table: email -> row, for the emails that have a row
  sessions,   \* req.session of each browser session
  now,        \* Date.now()
  last,       \* the request handled last and the response it got
  authed,     \* history: the session verified a code and has not logged out
  issued,     \* history: per email, the code issued last and not yet consumed
  consumed,   \* history: per email, codes consumed and not issued again since
  issuedAt,   \* history: per email, the time of the last code issuance (0: none)
  resentAt,   \* history: per session, the times of its successful resends
  submitted,  \* history: per email, the panel form saved last (NoForm: none)
  crypto,     \* CryptoSpec only: a value, its sealed form, the opened result
  run,        \* one call of runWarrantyCheck: its position, locals and requests
  mail,       \* OTP mails: handlers waiting on sendOtpEmail, mails delivered
  report      \* the POST /warranty-check waiting on runWarrantyCheck, and
              \* history: per session, the account its lastCsv was made for

vars == << users, sessions, now, last, authed, issued, consumed, issuedAt,
           resentAt, submitted, crypto, run, mail, report >>

history == << authed, issued, consumed, issuedAt, resentAt, submitted >>

\* The seven credential columns of the users table.
Fields == {"smtp_host", "smtp_port", "smtp_user", "smtp_pass", "smtp_secure",
           "peplink_client_id", "peplink_client_secret"}

\* INSERT INTO users (email, otp) VALUES (?, ''): the other columns are NULL.
NewRow == [k \in Fields \cup {"otp"} |-> IF k = "otp" THEN "" ELSE Null]

\* A session nothing was stored in: userEmail and lastCsv undefined (""),
\* nextResendAllowedTime undefined (0, which is what `|| 0` reads it as).
EmptySession == [userEmail |-> "", nextResendAllowedTime |-> 0, lastCsv |-> ""]

\* req.body of POST /panel: a filled form, another one, and a partial one
\* (the mail fields omitted, an empty client secret, a non-string port).
FilledForm ==
  [smtp_host |-> << 1, 2 >>, smtp_port |-> << 3 >>, smtp_user |-> << 1 >>,
   smtp_pass |-> << 2, 0, 1 >>, smtp_secure |-> << 1 >>,
   peplink_client_id |-> << 1, 1 >>, peplink_client_secret |-> << 2, 3, 2 >>]

OtherForm ==
  [smtp_host |-> << 1, 2 >>, smtp_port |-> << 0 >>, smtp_user |-> << 1 >>,
   smtp_pass |-> << 3, 3 >>, smtp_secure |-> << 0 >>,
   peplink_client_id |-> << 3 >>, peplink_client_secret |-> << 0, 1 >>]

PartialForm ==
  [smtp_host |-> Undefined, smtp_port |-> NotAString, smtp_user |-> Undefined,
   smtp_pass |-> Undefined, smtp_secure |-> Undefined,
   peplink_client_id |-> << 2 >>, peplink_client_secret |-> << >>]

Forms == {FilledForm, OtherForm, PartialForm}

NoForm == [k \in Fields |-> Null]

\* The crypto scratch variable outside CryptoSpec.
CryptoOff == [stage |-> "off", input |-> Null, sealed |-> Null, opened |-> Null]
NoPayload == << >>

\* No call of runWarrantyCheck is in progress.
RunOff == [pc |-> "off"]

\* No handler is waiting on sendOtpEmail, nothing was written or delivered.
NoMail ==
  [pending |-> {}, written |-> [e \in Emails |-> << >>],
   inbox |-> [e \in Emails |-> << >>]]

\* No POST /warranty-check is waiting on runWarrantyCheck.
NoRequest == [session |-> "", account |-> "", clientId |-> << >>,
              clientSecret |-> << >>]

\* No report request in progress, no report stored in any session.
NoReport == [request |-> NoRequest, producedAs |-> [s \in Sessions |-> ""]]

\* The csv a successful run returns (its content is the report generator's).
Reports == {"csv1", "csv2"}

\* What the request handled last was and how it was answered.
Response(op, result, payload) == [op |-> op, result |-> result, payload |-> payload]

\* The users table right after CREATE TABLE.
EmptyDb == [e \in {} |-> NewRow]

Init ==
  /\ users = EmptyDb
  /\ sessions = [s \in Sessions |-> EmptySession]
  /\ now = Epoch
  /\ last = Response("start", "", NoPayload)
  /\ authed = [s \in Sessions |-> FALSE]
  /\ issued = [e \in Emails |-> ""]
  /\ consumed = [e \in Emails |-> {}]
  /\ issuedAt = [e \in Emails |-> 0]
  /\ resentAt = [s \in Sessions |-> << >>]
  /\ submitted = [e \in Emails |-> NoForm]
  /\ crypto = CryptoOff
  /\ run = RunOff
  /\ mail = NoMail
  /\ report = NoReport

(***************************************************************************)
(* Database statements.                                                    *)
(***************************************************************************)
\* SELECT * FROM users WHERE email = ?  returns a row.
HasRow(db, email) == email \in DOMAIN db

InsertUser(db, email) ==
  [e \in DOMAIN db \cup {email} |-> IF e = email THEN NewRow ELSE db[e]]

\* A find-or-create that inserts a fresh row whether or not one exists.
findOrCreateUserByEmail_AlwaysInserts(db, email) == InsertUser(db, email)

\* findOrCreateUserByEmail, as the table it leaves.
findOrCreateUserByEmail(db, email) ==
  IF ~HasRow(db, email) THEN InsertUser(db, email) ELSE db

\* An update that leaves a code that is still stored in place.
UpdateOtp_KeepsLiveCode(db, email, otpCode) ==
  [e \in DOMAIN db |->
     IF e = email /\ db[e].otp = "" THEN [db[e] EXCEPT !.otp = otpCode] ELSE db[e]]

\* UPDATE users SET otp = ? WHERE email = ?
UpdateOtp(db, email, otpCode) ==
  [e \in DOMAIN db |-> IF e = email THEN [db[e] EXCEPT !.otp = otpCode] ELSE db[e]]

\* A verification that does not clear the code.
ClearOtp_Keeps(db, email) == db

\* UPDATE users SET otp = '' WHERE email = ?
ClearOtp(db, email) ==
  [e \in DOMAIN db |-> IF e = email THEN [db[e] EXCEPT !.otp = ""] ELSE db[e]]

\* An update that keeps the stored value of a field submitted empty.
UpdateCredentials_KeepsOmitted(db, email, enc) ==
  [e \in DOMAIN db |->
     IF e = email
     THEN [k \in Fields \cup {"otp"} |->
             IF k = "otp" \/ enc[k] = << >> THEN db[e][k] ELSE enc[k]]
     ELSE db[e]]

\* UPDATE users SET smtp_host = ?, ... WHERE email = ?
UpdateCredentials(db, email, enc) ==
  [e \in DOMAIN db |->
     IF e = email
     THEN [k \in Fields \cup {"otp"} |-> IF k = "otp" THEN db[e].otp ELSE enc[k]]
     ELSE db[e]]

\* DELETE FROM users WHERE email = ?
DeleteUser(db, email) == [e \in DOMAIN db \ {email} |-> db[e]]

(***************************************************************************)
(* OTP login flow.                                                         *)
(***************************************************************************)
\* A gate that lets every request through.
requireLogin_Always(s) == TRUE

\* requireLogin: req.session.userEmail is set.
requireLogin(s) == sessions[s].userEmail # ""

\* String.prototype.toUpperCase on the code inputs.
ToUpperCase(c) == IF c = "ab" THEN "AB" ELSE c

\* A comparison that ignores case.
OtpMismatch_IgnoresCase(stored, otp) == ToUpperCase(stored) # ToUpperCase(otp)

\* The exact comparison of POST /login/otp: user.otp !== otp.
OtpMismatch(stored, otp) == stored # otp

\* POST /login: find or create the account, store a fresh code, mail it,
\* answer with the "enter OTP" page.  otpCode is the uuid drawn.
LoginPost(s, email, otpCode) ==
  IF email = ""
  THEN /\ last' = Response("POST /login", "Missing email", NoPayload)
       /\ UNCHANGED << users, sessions, now >>
  ELSE /\ users' = UpdateOtp(findOrCreateUserByEmail(users, email), email, otpCode)
       /\ last' = Response("POST /login", "otp page", NoPayload)
       /\ UNCHANGED << sessions, now >>

\* A verification without the test for a missing email or code.
OtpPost_AcceptsEmpty(s, email, otp) ==
  IF ~HasRow(users, email)
  THEN /\ last' = Response("POST /login/otp", "User not found",
                           NoPayload)
       /\ UNCHANGED << users, sessions, now >>
  ELSE IF OtpMismatch(users[email].otp, otp)
  THEN /\ last' = Response("POST /login/otp", "Invalid OTP", NoPayload)
       /\ UNCHANGED << users, sessions, now >>
  ELSE /\ sessions' = [sessions EXCEPT ![s].userEmail = email]
       /\ users' = ClearOtp(users, email)
       /\ last' = Response("POST /login/otp", "redirect /warranty-check",
                           NoPayload)
       /\ UNCHANGED now

\* POST /login/otp: verify the submitted code.
OtpPost(s, email, otp) ==
  IF email = "" \/ otp = ""
  THEN /\ last' = Response("POST /login/otp", "Missing email or OTP",
                           NoPayload)
       /\ UNCHANGED << users, sessions, now >>
  ELSE IF ~HasRow(users, email)
  THEN /\ last' = Response("POST /login/otp", "User not found",
                           NoPayload)
       /\ UNCHANGED << users, sessions, now >>
  ELSE IF OtpMismatch(users[email].otp, otp)
  THEN /\ last' = Response("POST /login/otp", "Invalid OTP", NoPayload)
       /\ UNCHANGED << users, sessions, now >>
  ELSE /\ sessions' = [sessions EXCEPT ![s].userEmail = email]
       /\ users' = ClearOtp(users, email)
       /\ last' = Response("POST /login/otp", "redirect /warranty-check",
                           NoPayload)
       /\ UNCHANGED now

\* A cooldown test that still refuses at the deadline itself.
InCooldown_Inclusive(t, nextAllowed) == t <= nextAllowed

\* The cooldown test of POST /login/resend: now < nextAllowed.
InCooldown(t, nextAllowed) == t < nextAllowed

\* A deadline of 30 seconds.
NextAllowed_Short(t) == t + (30 * 1000)

\* The deadline POST /login/resend records: now + (60 * 1000).
NextAllowed(t) == t + (60 * 1000)

\* POST /login/resend: a new code for an existing account, unless the
\* session's cooldown is running.  sendOtpEmail catches its own errors, so
\* the answer after the send is always the success one.
ResendPost(s, email, otpCode) ==
  IF email = ""
  THEN /\ last' = Response("POST /login/resend", "No email provided.",
                           NoPayload)
       /\ UNCHANGED << users, sessions, now >>
  ELSE IF ~HasRow(users, email)
  THEN /\ last' = Response("POST /login/resend", "User not found.",
                           NoPayload)
       /\ UNCHANGED << users, sessions, now >>
  ELSE IF InCooldown(now, sessions[s].nextResendAllowedTime)
  THEN /\ last' = Response("POST /login/resend", "Please wait",
                           NoPayload)
       /\ UNCHANGED << users, sessions, now >>
  ELSE /\ sessions' = [sessions EXCEPT ![s].nextResendAllowedTime = NextAllowed(now)]
       /\ users' = UpdateOtp(users, email, otpCode)
       /\ last' = Response("POST /login/resend", "success", NoPayload)
       /\ UNCHANGED now

\* A logout that also clears the account's stored code.
Logout_ClearsCode(s) ==
  /\ sessions' = [sessions EXCEPT ![s] = EmptySession]
  /\ last' = Response("GET /logout", "redirect /login", NoPayload)
  /\ users' = ClearOtp(users, sessions[s].userEmail)
  /\ UNCHANGED now

\* GET /logout: req.session.destroy.
Logout(s) ==
  /\ sessions' = [sessions EXCEPT ![s] = EmptySession]
  /\ last' = Response("GET /logout", "redirect /login", NoPayload)
  /\ UNCHANGED << users, now >>

\* A deletion that removes the row and leaves the session.
DeleteAccount_KeepsSession(s) ==
  IF ~requireLogin(s)
  THEN /\ last' = Response("delete account", "redirect /login", NoPayload)
       /\ UNCHANGED << users, sessions, now >>
  ELSE /\ users' = DeleteUser(users, sessions[s].userEmail)
       /\ last' = Response("delete account", "redirect /login?deleted=1",
                           NoPayload)
       /\ UNCHANGED << sessions, now >>

\* "Delete My Account" in the panel: the row and all its data are removed,
\* the session is destroyed, the user is sent to /login?deleted=1.
DeleteAccount(s) ==
  IF ~requireLogin(s)
  THEN /\ last' = Response("delete account", "redirect /login", NoPayload)
       /\ UNCHANGED << users, sessions, now >>
  ELSE /\ users' = DeleteUser(users, sessions[s].userEmail)
       /\ sessions' = [sessions EXCEPT ![s] = EmptySession]
       /\ last' = Response("delete account", "redirect /login?deleted=1",
                           NoPayload)
       /\ UNCHANGED now

\* Time passes between two requests.
Tick(d) ==
  /\ now + d <= MaxNow
  /\ now' = now + d
  /\ last' = Response("tick", "", NoPayload)
  /\ UNCHANGED << users, sessions >>

(***************************************************************************)
(* Credential panel and warranty routes.                                   *)
(***************************************************************************)
\* The `user` object GET /panel and getDecryptedUser build from a row.
DecryptRow(row) == [k \in Fields |-> decrypt(row[k])]

\* The fields stored as submitted (value || '').
EncryptForm_Plain(form) ==
  [k \in Fields |-> IF Falsy(form[k]) THEN << >> ELSE form[k]]

\* The seven enc_* values POST /panel computes from req.body.
EncryptForm(form) == [k \in Fields |-> encrypt(form[k])]

\* getDecryptedUser(db, email): null without a row.
getDecryptedUser(db, email) ==
  IF ~HasRow(db, email) THEN Null ELSE DecryptRow(db[email])

\* GET /panel: show the decrypted fields.  Without a row, userRow is
\* undefined and reading userRow.email throws.
PanelGet(s) ==
  IF ~requireLogin(s)
  THEN /\ last' = Response("GET /panel", "redirect /login", NoPayload)
       /\ UNCHANGED << users, sessions, now >>
  ELSE IF ~HasRow(users, sessions[s].userEmail)
  THEN /\ last' = Response("GET /panel", "TypeError",
                           NoPayload)
       /\ UNCHANGED << users, sessions, now >>
  ELSE /\ last' = Response("GET /panel", "panel page",
                           DecryptRow(users[sessions[s].userEmail]))
       /\ UNCHANGED << users, sessions, now >>

\* POST /panel: encrypt the seven submitted fields and store them.
PanelPost(s, form) ==
  IF ~requireLogin(s)
  THEN /\ last' = Response("POST /panel", "redirect /login", NoPayload)
       /\ UNCHANGED << users, sessions, now >>
  ELSE /\ users' = UpdateCredentials(users, sessions[s].userEmail,
                                     EncryptForm(form))
       /\ last' = Response("POST /panel", "Settings Updated", NoPayload)
       /\ UNCHANGED << sessions, now >>

\* POST /warranty-check: run the report with the decrypted client id and
\* secret; csv is what runWarrantyCheck returns, "" when it throws.
WarrantyCheckPost(s, csv) ==
  IF ~requireLogin(s)
  THEN /\ last' = Response("POST /warranty-check", "redirect /login",
                           NoPayload)
       /\ UNCHANGED << users, sessions, now >>
  ELSE LET email == sessions[s].userEmail
           user == getDecryptedUser(users, email)
       IN  IF ~HasRow(users, email)
           THEN /\ last' = Response("POST /warranty-check",
                                    "redirect /login, no user found", NoPayload)
                /\ UNCHANGED << users, sessions, now >>
           ELSE IF Falsy(user.peplink_client_id)
                     \/ Falsy(user.peplink_client_secret)
           THEN /\ last' = Response("POST /warranty-check",
                                    "Missing Peplink credentials", NoPayload)
                /\ UNCHANGED << users, sessions, now >>
           ELSE IF csv = ""
           THEN /\ last' = Response("POST /warranty-check",
                                    "Error running warranty check",
                                    << user.peplink_client_id,
                                       user.peplink_client_secret >>)
                /\ UNCHANGED << users, sessions, now >>
           ELSE /\ sessions' = [sessions EXCEPT ![s].lastCsv = csv]
                /\ last' = Response("POST /warranty-check",
                                    "redirect /warranty-check/results",
                                    << user.peplink_client_id,
                                       user.peplink_client_secret >>)
                /\ UNCHANGED << users, now >>

\* GET /warranty-check/results: render req.session.lastCsv || ''.
ResultsGet(s) ==
  IF ~requireLogin(s)
  THEN /\ last' = Response("GET /warranty-check/results", "redirect /login",
                           NoPayload)
       /\ UNCHANGED << users, sessions, now >>
  ELSE /\ last' = Response("GET /warranty-check/results", "results page",
                           sessions[s].lastCsv)
       /\ UNCHANGED << users, sessions, now >>

\* GET /warranty-check/download: send req.session.lastCsv as a file.
DownloadGet(s) ==
  IF ~requireLogin(s)
  THEN /\ last' = Response("GET /warranty-check/download", "redirect /login",
                           NoPayload)
       /\ UNCHANGED << users, sessions, now >>
  ELSE IF sessions[s].lastCsv = ""
  THEN /\ last' = Response("GET /warranty-check/download",
                           "redirect /warranty-check", NoPayload)
       /\ UNCHANGED << users, sessions, now >>
  ELSE /\ last' = Response("GET /warranty-check/download", "text/csv",
                           sessions[s].lastCsv)
       /\ UNCHANGED << users, sessions, now >>


(***************************************************************************)
(* History variables.  They record what happened, from the request and its *)
(* response; no handler reads them.                                        *)
(***************************************************************************)
CodeIssued == last'.op \in {"POST /login", "POST /login/resend"}
                /\ last'.result \in {"otp page", "success"}
CodeVerified == last'.op = "POST /login/otp"
                  /\ last'.result = "redirect /warranty-check"
AccountDeleted == last'.op = "delete account"
                    /\ last'.result = "redirect /login?deleted=1"
PanelSaved == last'.op = "POST /panel" /\ last'.result = "Settings Updated"

\* s, e, c, f: the session, email, code and form of the request handled (for
\* a panel or deletion request e is the session's email before the request).
\* track: the history variables the specification keeps.
History(track, s, e, c, f) ==
  /\ authed' = IF "authed" \notin track THEN authed
               ELSE IF CodeVerified THEN [authed EXCEPT ![s] = TRUE]
               ELSE IF last'.op = "GET /logout" \/ AccountDeleted
                    THEN [authed EXCEPT ![s] = FALSE]
               ELSE authed
  /\ issued' = IF "issued" \notin track THEN issued
               ELSE IF CodeIssued THEN [issued EXCEPT ![e] = c]
               ELSE IF CodeVerified \/ AccountDeleted
                    THEN [issued EXCEPT ![e] = ""]
               ELSE issued
  /\ consumed' = IF "consumed" \notin track THEN consumed
                 ELSE IF CodeIssued THEN [consumed EXCEPT ![e] = @ \ {c}]
                 ELSE IF CodeVerified THEN [consumed EXCEPT ![e] = @ \cup {c}]
                 ELSE consumed
  /\ issuedAt' = IF "issuedAt" \notin track THEN issuedAt
                 ELSE IF CodeIssued THEN [issuedAt EXCEPT ![e] = now]
                 ELSE issuedAt
  /\ resentAt' = IF "resentAt" \notin track THEN resentAt
                 ELSE IF CodeIssued /\ last'.op = "POST /login/resend"
                      THEN [resentAt EXCEPT ![s] = Append(@, now)]
                 ELSE IF last'.op = "GET /logout" \/ AccountDeleted
                      THEN [resentAt EXCEPT ![s] = << >>]
                 ELSE resentAt
  /\ submitted' = IF "submitted" \notin track THEN submitted
                  ELSE IF PanelSaved /\ HasRow(users, e)
                       THEN [submitted EXCEPT ![e] = f]
                  ELSE IF AccountDeleted
                            \/ (CodeIssued /\ ~HasRow(users, e))
                       THEN [submitted EXCEPT ![e] = NoForm]
                  ELSE submitted
  /\ UNCHANGED << crypto, run, mail, report >>

(***************************************************************************)
(* The whole application: every request kind, every history variable.      *)
(***************************************************************************)
AllHistory ==
  {"authed", "issued", "consumed", "issuedAt", "resentAt", "submitted"}

Requests(track, S, E, C, CI, F, R) ==
  \/ \E s \in S, e \in E, c \in C :
       LoginPost(s, e, c) /\ History(track, s, e, c, NoForm)
  \/ \E s \in S, e \in E, c \in CI :
       OtpPost(s, e, c) /\ History(track, s, e, c, NoForm)
  \/ \E s \in S, e \in E, c \in C :
       ResendPost(s, e, c) /\ History(track, s, e, c, NoForm)
  \/ \E s \in S : Logout(s) /\ History(track, s, "", "", NoForm)
  \/ \E s \in S :
       DeleteAccount(s) /\ History(track, s, sessions[s].userEmail, "", NoForm)
  \/ \E s \in S : PanelGet(s) /\ History(track, s, "", "", NoForm)
  \/ \E s \in S, f \in F :
       PanelPost(s, f) /\ History(track, s, sessions[s].userEmail, "", f)
  \/ \E s \in S, csv \in R \cup {""} :
       WarrantyCheckPost(s, csv) /\ History(track, s, "", "", NoForm)
  \/ \E s \in S : ResultsGet(s) /\ History(track, s, "", "", NoForm)
  \/ \E s \in S : DownloadGet(s) /\ History(track, s, "", "", NoForm)

Next ==
  \/ Requests(AllHistory, Sessions, EmailInputs, Codes, CodeInputs, Forms, Reports)
  \/ \E d \in TickSteps : Tick(d) /\ UNCHANGED << history, crypto, run, mail, report >>

Spec == Init /\ [][Next]_vars


(***************************************************************************)
(* The login flow alone: the requests that write the otp column or the     *)
(* session's userEmail, from two sessions, at one instant.                 *)
(***************************************************************************)
LoginHistory == {"issued", "consumed"}

NextLogin ==
  \/ \E s \in Sessions, e \in EmailInputs, c \in Codes :
       LoginPost(s, e, c) /\ History(LoginHistory, s, e, c, NoForm)
  \/ \E s \in Sessions, e \in EmailInputs, c \in CodeInputs :
       OtpPost(s, e, c) /\ History(LoginHistory, s, e, c, NoForm)
  \/ \E s \in Sessions, e \in EmailInputs, c \in Codes :
       ResendPost(s, e, c) /\ History(LoginHistory, s, e, c, NoForm)
  \/ \E s \in Sessions : Logout(s) /\ History(LoginHistory, s, "", "", NoForm)
  \/ \E s \in Sessions :
       DeleteAccount(s)
         /\ History(LoginHistory, s, sessions[s].userEmail, "", NoForm)

SpecLogin == Init /\ [][NextLogin]_vars

\* C1: an OTP is single-use.  A successful verification for an email leaves
\* that account's stored code empty, and from then on a verification that
\* submits a code the account has consumed fails, as long as no code equal
\* to it has been issued to the account again.
C1_SingleUse ==
  [][last'.op = "POST /login/otp" => \A s \in Sessions, e \in Emails, c \in CodeInputs :
         OtpPost(s, e, c) =>
           /\ CodeVerified => HasRow(users', e) /\ users'[e].otp = ""
           /\ c \in consumed[e] => ~CodeVerified]_vars

\* C1 witness: a code was consumed, and submitting a code was then refused
\* while the consumed code had not been issued again.
C1_Witness ==
  /\ last.op = "POST /login/otp"
  /\ last.result = "Invalid OTP"
  /\ \E e \in Emails : consumed[e] # {} /\ HasRow(users, e) /\ users[e].otp = ""

\* C2: a verification fails whenever the email has no account or the
\* submitted code differs from the stored one in any way; a verification that
\* fails leaves the users table (every stored code) and every session (no
\* new session, authenticated sessions as they were) unchanged.
C2_FailedVerification ==
  [][last'.op = "POST /login/otp" => \A s \in Sessions, e \in EmailInputs, c \in CodeInputs :
         OtpPost(s, e, c) =>
           /\ (~HasRow(users, e) \/ users[e].otp # c) => ~CodeVerified
           /\ ~CodeVerified => users' = users /\ sessions' = sessions]_vars

\* C2 witness: a verification was refused as invalid while a code is stored
\* and a session is authenticated.
C2_Witness ==
  /\ last.op = "POST /login/otp"
  /\ last.result = "Invalid OTP"
  /\ \E e \in Emails : HasRow(users, e) /\ users[e].otp # ""
  /\ \E s \in Sessions : sessions[s].userEmail # ""

\* C4: a new code invalidates the previous one.  A verification for an
\* existing account succeeds exactly when it submits the code issued to the
\* account last and not yet consumed (issued[e]; an account that is deleted
\* has none); so after c1 and then c2 were issued, c1 is refused and c2 is
\* accepted.
C4_LatestCodeOnly ==
  [][last'.op = "POST /login/otp" => \A s \in Sessions, e \in Emails, c \in CodeInputs :
         OtpPost(s, e, c) => (CodeVerified <=> (c # "" /\ c = issued[e]))]_vars

\* C4 witness: a verification was refused as invalid while the account holds
\* a code issued after another one was consumed.
C4_Witness ==
  /\ last.op = "POST /login/otp"
  /\ last.result = "Invalid OTP"
  /\ \E e \in Emails :
       /\ issued[e] # ""
       /\ consumed[e] # {}
       /\ HasRow(users, e)
       /\ users[e].otp = issued[e]

(***************************************************************************)
(* The resend cooldown: code requests and resends from two sessions, with  *)
(* logout and the clock.                                                   *)
(***************************************************************************)
ResendHistory == {"issuedAt", "resentAt"}

NextResend ==
  \/ \E s \in Sessions, e \in EmailInputs, c \in Codes :
       LoginPost(s, e, c) /\ History(ResendHistory, s, e, c, NoForm)
  \/ \E s \in Sessions, e \in EmailInputs, c \in Codes :
       ResendPost(s, e, c) /\ History(ResendHistory, s, e, c, NoForm)
  \/ \E s \in Sessions : Logout(s) /\ History(ResendHistory, s, "", "", NoForm)
  \/ \E d \in TickSteps : Tick(d) /\ UNCHANGED << history, crypto, run, mail, report >>

SpecResend == Init /\ [][NextResend]_vars

\* The time of the session's last successful resend (0: none since the
\* session began).
LastResend(s) ==
  IF resentAt[s] = << >> THEN 0 ELSE resentAt[s][Len(resentAt[s])]

C6_ResendAfterDeadline ==
  [][last'.op = "POST /login/resend" =>
       \A s \in Sessions, e \in Emails, c \in Codes :
         (ResendPost(s, e, c) /\ HasRow(users, e)
            /\ now >= sessions[s].nextResendAllowedTime)
           => /\ last'.result = "success"
              /\ users' = UpdateOtp(findOrCreateUserByEmail(users, e), e, c)
              /\ users'[e].otp = c
              /\ sessions'[s].nextResendAllowedTime = now + 60 * 1000
              /\ \A s2 \in Sessions \ {s} : sessions'[s2] = sessions[s2]]_vars

\* C6 witness: a session resent successfully twice, the second time exactly
\* at the deadline the first one recorded.
C6_Witness ==
  /\ last.op = "POST /login/resend"
  /\ last.result = "success"
  /\ \E s \in Sessions :
       /\ Len(resentAt[s]) = 2
       /\ resentAt[s][2] = resentAt[s][1] + 60 * 1000
       /\ resentAt[s][2] = now
       /\ sessions[s].nextResendAllowedTime = now + 60 * 1000

(***************************************************************************)
(* Code lifetime: the login flow of one session with the clock.            *)
(***************************************************************************)
ExpirySessions == {"s1"}
ExpiryHistory == {"issuedAt"}

NextExpiry ==
  \/ \E s \in ExpirySessions, e \in EmailInputs, c \in Codes :
       LoginPost(s, e, c) /\ History(ExpiryHistory, s, e, c, NoForm)
  \/ \E s \in ExpirySessions, e \in EmailInputs, c \in CodeInputs :
       OtpPost(s, e, c) /\ History(ExpiryHistory, s, e, c, NoForm)
  \/ \E s \in ExpirySessions, e \in EmailInputs, c \in Codes :
       ResendPost(s, e, c) /\ History(ExpiryHistory, s, e, c, NoForm)
  \/ \E s \in ExpirySessions :
       Logout(s) /\ History(ExpiryHistory, s, "", "", NoForm)
  \/ \E s \in ExpirySessions :
       DeleteAccount(s)
         /\ History(ExpiryHistory, s, sessions[s].userEmail, "", NoForm)
  \/ \E d \in TickSteps : Tick(d) /\ UNCHANGED << history, crypto, run, mail, report >>

SpecExpiry == Init /\ [][NextExpiry]_vars

\* C8: a stored code does not expire.  While the account's row exists, a
\* step changes its non-empty stored code only if it is a successful
\* verification for that email or a code issuance (POST /login, successful
\* POST /login/resend) for it: not the clock, not a failed verification, not
\* a logout.  And a verification that submits the stored code succeeds,
\* whatever the time.
C8_NoExpiry ==
  [][\A e \in Emails :
       (HasRow(users, e) /\ users[e].otp # "")
         => /\ HasRow(users', e) =>
                 \/ users'[e].otp = users[e].otp
                 \/ \E s \in Sessions, c \in CodeInputs :
                      OtpPost(s, e, c) /\ CodeVerified
                 \/ \E s \in Sessions, c \in Codes :
                      (LoginPost(s, e, c) \/ ResendPost(s, e, c)) /\ CodeIssued
            /\ \A s \in Sessions :
                 OtpPost(s, e, users[e].otp) => CodeVerified]_vars

\* C8 witness: a code was accepted a minute or more after it was issued.
C8_Witness ==
  /\ last.op = "POST /login/otp"
  /\ last.result = "redirect /warranty-check"
  /\ \E e \in Emails :
       /\ sessions["s1"].userEmail = e
       /\ issuedAt[e] > 0
       /\ now - issuedAt[e] >= 60 * 1000

(***************************************************************************)
(* The session gate: every request kind, from two sessions, at one         *)
(* instant, with one code and one report.                                  *)
(***************************************************************************)
GateHistory == {"authed"}
GateCodes == {"AB"}
GateForms == {FilledForm}
GateReports == {"csv1"}

NextGate ==
  \/ \E s \in Sessions, e \in EmailInputs, c \in GateCodes :
       LoginPost(s, e, c) /\ History(GateHistory, s, e, c, NoForm)
  \/ \E s \in Sessions, e \in EmailInputs, c \in GateCodes \cup {""} :
       OtpPost(s, e, c) /\ History(GateHistory, s, e, c, NoForm)
  \/ \E s \in Sessions : Logout(s) /\ History(GateHistory, s, "", "", NoForm)
  \/ \E s \in Sessions :
       DeleteAccount(s)
         /\ History(GateHistory, s, sessions[s].userEmail, "", NoForm)
  \/ \E s \in Sessions : PanelGet(s) /\ History(GateHistory, s, "", "", NoForm)
  \/ \E s \in Sessions, f \in GateForms :
       PanelPost(s, f) /\ History(GateHistory, s, sessions[s].userEmail, "", f)
  \/ \E s \in Sessions, csv \in GateReports \cup {""} :
       WarrantyCheckPost(s, csv) /\ History(GateHistory, s, "", "", NoForm)
  \/ \E s \in Sessions : ResultsGet(s) /\ History(GateHistory, s, "", "", NoForm)
  \/ \E s \in Sessions : DownloadGet(s) /\ History(GateHistory, s, "", "", NoForm)

SpecGate == Init /\ [][NextGate]_vars

\* The five protected operations, requested in session s.
ProtectedRequest(s) ==
  \/ PanelGet(s)
  \/ \E f \in GateForms : PanelPost(s, f)
  \/ \E csv \in GateReports \cup {""} : WarrantyCheckPost(s, csv)
  \/ ResultsGet(s)
  \/ DownloadGet(s)

\* Their routes.
ProtectedRoutes ==
  {"GET /panel", "POST /panel", "POST /warranty-check",
   "GET /warranty-check/results", "GET /warranty-check/download"}

\* The answers that send the browser to the login page.
LoginRedirects == {"redirect /login", "redirect /login, no user found"}

\* C3: a protected operation (panel view, panel update, report run, results
\* view, csv download) is served only in a session that verified a code and
\* has not been logged out (or destroyed by a deletion) since; in any other
\* session it answers with the redirect to the login page, shows nothing of
\* a row or a report and changes neither the table nor any session.
C3_ProtectedOnlyWhenLoggedIn ==
  [][last'.op \in ProtectedRoutes =>
       \A s \in Sessions :
         ProtectedRequest(s) =>
           /\ last'.result \notin LoginRedirects => authed[s]
           /\ ~authed[s] =>
                /\ last'.result = "redirect /login"
                /\ last'.payload = NoPayload
                /\ users' = users
                /\ sessions' = sessions]_vars

\* C3 witness: a download was redirected to the login page while another
\* session is logged in and holds a report, and some session that had
\* verified a code is logged out again.
C3_Witness ==
  /\ last.op = "GET /warranty-check/download"
  /\ last.result = "redirect /login"
  /\ \E s \in Sessions : authed[s] /\ sessions[s].lastCsv # ""
  /\ \E s \in Sessions : ~authed[s] /\ sessions[s].userEmail = ""
  /\ \E e \in Emails : HasRow(users, e) /\ users[e].otp = ""

\* C7: account deletion is one step.  A deletion request in a logged-in
\* session leaves, in the very next state, the table without that account's
\* row (the other rows as they were) and the requesting session destroyed; in
\* a session that is not logged in it changes nothing.  So no state has the
\* row gone and the requesting session still logged in, or that session
\* gone and the row still there.
C7_DeletionAtomic ==
  [][\A s \in Sessions :
       DeleteAccount(s) =>
         IF sessions[s].userEmail # ""
         THEN /\ ~HasRow(users', sessions[s].userEmail)
              /\ users' = DeleteUser(users, sessions[s].userEmail)
              /\ sessions'[s] = EmptySession
              /\ last'.result = "redirect /login?deleted=1"
         ELSE /\ users' = users
              /\ sessions' = sessions]_vars

\* C7 witness: an account was deleted from a logged-in session; its row is
\* gone, no session is logged in, and another account's row, with saved
\* credentials, remains.
C7_Witness ==
  /\ last.op = "delete account"
  /\ last.result = "redirect /login?deleted=1"
  /\ \E e \in Emails : ~HasRow(users, e)
  /\ \E e \in Emails : HasRow(users, e) /\ users[e].smtp_host # Null
  /\ \A s \in Sessions : sessions[s] = EmptySession

(***************************************************************************)
(* The credential panel: log in, save forms, view the panel, run the       *)
(* report, delete the account, log out; two accounts, two sessions.        *)
(***************************************************************************)
PanelHistory == {"submitted"}
PanelCodes == {"AB"}
PanelReports == {"csv1"}

NextPanel ==
  \/ \E s \in Sessions, e \in Emails, c \in PanelCodes :
       LoginPost(s, e, c) /\ History(PanelHistory, s, e, c, NoForm)
  \/ \E s \in Sessions, e \in Emails, c \in PanelCodes :
       OtpPost(s, e, c) /\ History(PanelHistory, s, e, c, NoForm)
  \/ \E s \in Sessions : Logout(s) /\ History(PanelHistory, s, "", "", NoForm)
  \/ \E s \in Sessions :
       DeleteAccount(s)
         /\ History(PanelHistory, s, sessions[s].userEmail, "", NoForm)
  \/ \E s \in Sessions : PanelGet(s) /\ History(PanelHistory, s, "", "", NoForm)
  \/ \E s \in Sessions, f \in Forms :
       PanelPost(s, f) /\ History(PanelHistory, s, sessions[s].userEmail, "", f)
  \/ \E s \in Sessions, csv \in PanelReports \cup {""} :
       WarrantyCheckPost(s, csv) /\ History(PanelHistory, s, "", "", NoForm)

SpecPanel == Init /\ [][NextPanel]_vars

\* The value a submitted field reads back as: itself when it is a non-empty
\* string, the empty string when it was empty, absent or no string.
Saved(v) == IF Falsy(v) \/ ~IsString(v) THEN << >> ELSE v

\* Every stored credential field is NULL (never saved) or the encryption of
\* the value submitted last for it, and differs from a non-empty submitted
\* value itself.
StoredSealed ==
  \A e \in DOMAIN users : \A k \in Fields :
    /\ users[e][k] = IF submitted[e] = NoForm
                     THEN Null
                     ELSE encrypt(submitted[e][k])
    /\ Saved(submitted[e][k]) # << >> =>
         /\ users[e][k] # submitted[e][k]
         /\ users[e][k] # << >>

\* C9: after any sequence of requests every stored credential field of
\* every account is empty or the encryption of the value submitted last for
\* it, never that value itself; the panel view shows, and the report run
\* receives, the decryption of the stored fields, which is exactly what was
\* submitted last (the client id and secret for a run).
C9_SealedAtRest ==
  /\ []StoredSealed
  /\ [][last'.op \in {"GET /panel", "POST /warranty-check"} =>
          \A s \in Sessions :
            /\ (PanelGet(s) /\ last'.result = "panel page") =>
                 /\ last'.payload = DecryptRow(users[sessions[s].userEmail])
                 /\ last'.payload =
                      [k \in Fields |-> Saved(submitted[sessions[s].userEmail][k])]
            /\ \A csv \in PanelReports \cup {""} :
                 (WarrantyCheckPost(s, csv)
                    /\ last'.result \in {"Error running warranty check",
                                         "redirect /warranty-check/results"}) =>
                   last'.payload =
                     << submitted[sessions[s].userEmail].peplink_client_id,
                        submitted[sessions[s].userEmail].peplink_client_secret >>
    ]_vars

\* C9 witness: a report ran with the client id and secret of the form one
\* account saved last, while the other account holds a partly filled form.
C9_Witness ==
  /\ last.op = "POST /warranty-check"
  /\ last.result = "redirect /warranty-check/results"
  /\ last.payload = << OtherForm.peplink_client_id,
                       OtherForm.peplink_client_secret >>
  /\ \E e \in Emails :
       /\ HasRow(users, e)
       /\ submitted[e] = OtherForm
       /\ users[e].peplink_client_secret = encrypt(OtherForm.peplink_client_secret)
  /\ \E e \in Emails :
       /\ HasRow(users, e)
       /\ submitted[e] = PartialForm
       /\ users[e].smtp_host = << >>

(***************************************************************************)
(* encrypt and decrypt as functions: an input is drawn, then sealed and    *)
(* opened, or opened as it is.                                             *)
(***************************************************************************)
\* The strings of at most n code units.
RECURSIVE StringsUpTo(_)
StringsUpTo(n) ==
  IF n = 0
  THEN {<< >>}
  ELSE LET shorter == StringsUpTo(n - 1)
       IN  shorter \cup {Append(p, b) : p \in shorter, b \in Byte}

\* The inputs drawn: every string of at most MaxLen code units, null and
\* undefined.
CryptoInputs == StringsUpTo(MaxLen) \cup {Null, Undefined}

CryptoInit ==
  /\ users = EmptyDb
  /\ sessions = [s \in Sessions |-> EmptySession]
  /\ now = Epoch
  /\ last = Response("start", "", NoPayload)
  /\ authed = [s \in Sessions |-> FALSE]
  /\ issued = [e \in Emails |-> ""]
  /\ consumed = [e \in Emails |-> {}]
  /\ issuedAt = [e \in Emails |-> 0]
  /\ resentAt = [s \in Sessions |-> << >>]
  /\ submitted = [e \in Emails |-> NoForm]
  /\ run = RunOff
  /\ mail = NoMail
  /\ report = NoReport
  /\ crypto \in {[CryptoOff EXCEPT !.stage = "input", !.input = p] :
                   p \in CryptoInputs}

\* sealed = encrypt(input)
Seal ==
  /\ crypto.stage = "input"
  /\ crypto' = [crypto EXCEPT !.stage = "sealed", !.sealed = encrypt(crypto.input)]
  /\ UNCHANGED << users, sessions, now, last, history, run, mail, report >>

\* opened = decrypt(sealed)
Open ==
  /\ crypto.stage = "sealed"
  /\ crypto' = [crypto EXCEPT !.stage = "opened", !.opened = decrypt(crypto.sealed)]
  /\ UNCHANGED << users, sessions, now, last, history, run, mail, report >>

\* opened = decrypt(input): the input taken as a stored value.
OpenDirect ==
  /\ crypto.stage = "input"
  /\ crypto' = [crypto EXCEPT !.stage = "opened direct",
                              !.opened = decrypt(crypto.input)]
  /\ UNCHANGED << users, sessions, now, last, history, run, mail, report >>

CryptoNext == Seal \/ Open \/ OpenDirect

CryptoSpec == CryptoInit /\ [][CryptoNext]_vars

\* C10: decrypt(encrypt(P)) = P for every non-empty string P; for an empty
\* or absent input ('' , null, undefined) encrypt returns '' and decrypt
\* returns ''.
C10_RoundTrip ==
  /\ (crypto.stage = "opened" /\ ~Falsy(crypto.input))
       => /\ crypto.opened = crypto.input
          /\ crypto.sealed # << >>
  /\ (crypto.stage \in {"sealed", "opened"} /\ Falsy(crypto.input))
       => crypto.sealed = << >>
  /\ (crypto.stage \in {"opened", "opened direct"} /\ Falsy(crypto.input))
       => crypto.opened = << >>

\* C10 witness: a plaintext of exactly one block came back from a sealed
\* value of two blocks (the second one all padding).
C10_Witness ==
  /\ crypto.stage = "opened"
  /\ Len(crypto.input) = BlockSize
  /\ Len(crypto.sealed) = 4 * BlockSize
  /\ crypto.opened = crypto.input

(***************************************************************************)
(* Stored values that the configured key did not produce: a database that  *)
(* outlives the process holds a client secret sealed under another         *)
(* DATA_ENCRYPTION_KEY, or a sealed value of which one character changed.  *)
(* One account, logged in, with an intact client id.                       *)
(***************************************************************************)
\* encrypt as a process configured with `key` computes it.
SealUnder(key, plaintext) ==
  Base64Encode(CbcEncrypt(Pkcs7Pad(plaintext), key, IV))

\* The keys a process can be configured with, except the configured one.
OtherKeys == [1 .. BlockSize -> Byte] \ {ENCRYPTION_KEY}

\* The stored value v with its i-th character replaced by d.
Corrupt(v, i, d) == [v EXCEPT ![i] = d]

\* The non-empty plaintexts of at most MaxLen code units.
Plaintexts == StringsUpTo(MaxLen) \ {<< >>}

\* A stored value, how it came about, and the plaintext it was made from.
StoredValues ==
  {[stage |-> "intact", input |-> p, sealed |-> encrypt(p), opened |-> Null] :
     p \in Plaintexts}
  \cup
  {[stage |-> "wrong key", input |-> p, sealed |-> SealUnder(k, p),
    opened |-> Null] : p \in Plaintexts, k \in OtherKeys}
  \cup
  {[stage |-> "corrupt", input |-> c[1],
    sealed |-> Corrupt(encrypt(c[1]), c[2], c[3]), opened |-> Null] :
     c \in {x \in Plaintexts \X (1 .. (2 * (MaxLen + BlockSize)))
                           \X (0 .. (Radix - 1)) :
              /\ x[2] <= Len(encrypt(x[1]))
              /\ x[3] # encrypt(x[1])[x[2]]}}

StoredSessions == {"s1"}
StoredEmail == "a@x"
StoredClientId == << 1 >>

StoredInit ==
  /\ crypto \in StoredValues
  /\ run = RunOff
  /\ mail = NoMail
  /\ report = NoReport
  /\ users = [e \in {StoredEmail} |->
                [NewRow EXCEPT !.peplink_client_id = encrypt(StoredClientId),
                               !.peplink_client_secret = crypto.sealed]]
  /\ sessions = [s \in Sessions |->
                   IF s \in StoredSessions
                   THEN [EmptySession EXCEPT !.userEmail = StoredEmail]
                   ELSE EmptySession]
  /\ now = Epoch
  /\ last = Response("start", "", NoPayload)
  /\ authed = [s \in Sessions |-> s \in StoredSessions]
  /\ issued = [e \in Emails |-> ""]
  /\ consumed = [e \in Emails |-> {}]
  /\ issuedAt = [e \in Emails |-> 0]
  /\ resentAt = [s \in Sessions |-> << >>]
  /\ submitted = [e \in Emails |-> NoForm]

\* opened = decrypt(stored value)
OpenStored ==
  /\ crypto.opened = Null
  /\ crypto' = [crypto EXCEPT !.opened = decrypt(crypto.sealed)]
  /\ UNCHANGED << users, sessions, now, last, history, run, mail, report >>

StoredNext ==
  \/ OpenStored
  \/ \E s \in StoredSessions : PanelGet(s) /\ UNCHANGED << history, crypto, run, mail, report >>
  \/ \E s \in StoredSessions, csv \in PanelReports \cup {""} :
       WarrantyCheckPost(s, csv) /\ UNCHANGED << history, crypto, run, mail, report >>

StoredSpec == StoredInit /\ [][StoredNext]_vars

\* The decipher fails on v: nothing decodes, the decoded length is not a
\* whole number of blocks, or the last deciphered block is not a padded one.
DecipherFails(v) ==
  LET bs == Base64Decode(v)
  IN  \/ Len(bs) = 0
      \/ Len(bs) % BlockSize # 0
      \/ ~Pkcs7Ok(CbcDecrypt(bs, ENCRYPTION_KEY, IV))

\* C11, as stated: decrypt returns '' for every stored value that the
\* configured key did not produce (sealed under another key, or corrupt).
C11_InvalidOpensEmpty ==
  (crypto.stage \in {"wrong key", "corrupt"} /\ crypto.opened # Null)
    => crypto.opened = << >>

\* C11, amended: decrypt never raises, and whenever the decipher fails on the
\* stored client secret the panel shows it as '' and the report run is
\* refused as 'missing credentials', with nothing changed; exactly as for a
\* secret that was never set.  (A value the decipher accepts is returned, be
\* it sealed under another key or corrupt.)
C11_FailureOpensEmpty ==
  /\ [](crypto.opened # Null =>
          /\ IsString(crypto.opened)
          /\ DecipherFails(crypto.sealed) => crypto.opened = << >>)
  /\ [][\A s \in StoredSessions :
          LET stored == users[StoredEmail].peplink_client_secret
          IN  /\ (PanelGet(s) /\ DecipherFails(stored)) =>
                   /\ last'.result = "panel page"
                   /\ last'.payload.peplink_client_secret = << >>
              /\ \A csv \in PanelReports \cup {""} :
                   WarrantyCheckPost(s, csv) =>
                     /\ DecipherFails(stored) =>
                          /\ last'.result = "Missing Peplink credentials"
                          /\ last'.payload = NoPayload
                          /\ users' = users
                          /\ sessions' = sessions
                     /\ last'.result = "Missing Peplink credentials" =>
                          decrypt(stored) = << >>]_vars

\* C11 witness: a secret sealed under another key was opened as '' and the
\* run was refused as missing credentials.
C11_Witness ==
  /\ crypto.stage = "wrong key"
  /\ crypto.opened = << >>
  /\ DecipherFails(crypto.sealed)
  /\ last.op = "POST /warranty-check"
  /\ last.result = "Missing Peplink credentials"

(***************************************************************************)
(* runWarrantyCheck (peplinkCheck.js): token, organizations, devices of    *)
(* each organization, csv.  Every `await fetch` is two steps: the request  *)
(* goes out (Send), and its answer comes back (FetchToken, FetchOrgs,      *)
(* FetchDevices), what upstream answers being the step's input.  Time is   *)
(* counted in ticks, TicksPerDay to a day (the code counts milliseconds,   *)
(* 86400000 to a day).                                                     *)
(***************************************************************************)
TicksPerDay == 4
\* 90: the warranty window in days (90*24*60*60*1000 ms).
WarrantyDays == 90

\* A calendar date, as the ten characters YYYY-MM-DD give it.
Date(y, m, d) == << y, m, d >>

\* Days from 1970-01-01 to the date (the proleptic Gregorian calendar that
\* new Date('YYYY-MM-DD') uses, in UTC).
DaysFromCivil(date) ==
  LET y == IF date[2] <= 2 THEN date[1] - 1 ELSE date[1]
      era == y \div 400
      yoe == y - era * 400
      mp == IF date[2] > 2 THEN date[2] - 3 ELSE date[2] + 9
      doy == (153 * mp + 2) \div 5 + date[3] - 1
      doe == yoe * 365 + yoe \div 4 - yoe \div 100 + doy
  IN  era * 146097 + doe - 719468

\* The instant `tod` ticks after midnight (UTC) of the date.
Instant(date, tod) == DaysFromCivil(date) * TicksPerDay + tod

\* Not a number: the time value of an invalid Date.
NaN == -1000000000

\* device.expiry_date.substring(0,10): a date string is its three date
\* parts followed by what comes after the tenth character, if anything.
Substring10(str) == IF Len(str) > 3 THEN SubSeq(str, 1, 3) ELSE str

\* new Date(expiryDateStr).getTime(): midnight UTC of a YYYY-MM-DD date,
\* NaN for anything else.
ParseDate(str) ==
  IF Len(str) = 3 /\ \A k \in 1 .. 3 : str[k] \in Int
  THEN Instant(str, 0)
  ELSE NaN

\* A comparison that leaves the cutoff instant itself out.
NotAfter_Strict(t, cutoff) == t # NaN /\ t < cutoff

\* expiryDate <= cutoff: false when expiryDate is invalid.
NotAfter(t, cutoff) == t # NaN /\ t <= cutoff

\* Rounding down instead: Math.floor(a / b) for b > 0.
Ceil_Floor(a, b) == a \div b

\* Math.ceil(a / b) for b > 0.
Ceil(a, b) == -((-a) \div b)

\* The characters [a-zA-Z0-9] among those serials are written with.
Alnum == {"A", "B", "C", "D", "x", "1", "2", "3", "4", "9"}

\* A normalization that removes hyphens and nothing else.
StripNonAlnum_HyphensOnly(sn) == SelectSeq(sn, LAMBDA ch : ch # "-")

\* A serial written to the csv as received, hyphens included.
StripNonAlnum_KeepsAll(sn) == sn

\* device.sn.replace(/[^a-zA-Z0-9]/g, '')
StripNonAlnum(sn) == SelectSeq(sn, LAMBDA ch : ch \in Alnum)

Header ==
  [kind |-> "header",
   text |-> "org_name,serial_number,warranty_expiry_date,days_until_expiry,is_expired"]

NoOrgsLine == [kind |-> "note", text |-> "(No organizations found)"]
NoDevicesLine ==
  [kind |-> "note", text |-> "(No devices expiring within 90 days)"]

\* A csv line whose last column is derived from the day count instead of
\* being taken from the device record.
Row_ExpiredFromDays(org, device, at) ==
  LET days == Ceil(ParseDate(Substring10(device.expiry_date)) - at, TicksPerDay)
  IN  [kind |-> "row",
       org_name |-> org.name,
       serial_number |-> StripNonAlnum(device.sn),
       warranty_expiry_date |-> Substring10(device.expiry_date),
       days_until_expiry |-> days,
       is_expired |-> IF days < 0 THEN "YES" ELSE "NO"]

\* The csv line of a device that passed the filter.
Row(org, device, at) ==
  [kind |-> "row",
   org_name |-> org.name,
   serial_number |-> StripNonAlnum(device.sn),
   warranty_expiry_date |-> Substring10(device.expiry_date),
   days_until_expiry |->
     Ceil(ParseDate(Substring10(device.expiry_date)) - at, TicksPerDay),
   is_expired |-> IF device.expired = TRUE THEN "YES" ELSE "NO"]

\* The text of a sequence of characters.
RECURSIVE Text(_)
Text(chars) == IF Len(chars) = 0 THEN "" ELSE chars[1] \o Text(Tail(chars))

\* A month or day as its two digits.
TwoDigits(n) == IF n < 10 THEN "0" \o ToString(n) ELSE ToString(n)

\* The ten characters YYYY-MM-DD of a date.
DateText(date) ==
  ToString(date[1]) \o "-" \o TwoDigits(date[2]) \o "-" \o TwoDigits(date[3])

\* A csv line without the double quotes around its fields.
CsvLine_Unquoted(line) ==
  IF line.kind = "row"
  THEN line.org_name \o "," \o Text(line.serial_number) \o ","
       \o DateText(line.warranty_expiry_date) \o ","
       \o ToString(line.days_until_expiry) \o "," \o line.is_expired
  ELSE line.text

\* Lines 91-93: the text of a csv line,
\* `"${org.name}","${serial}","${expiryDateStr}","${daysLeft}","${isExpired}"`.
CsvLine(line) ==
  IF line.kind = "row"
  THEN "\"" \o line.org_name \o "\",\"" \o Text(line.serial_number)
       \o "\",\"" \o DateText(line.warranty_expiry_date)
       \o "\",\"" \o ToString(line.days_until_expiry)
       \o "\",\"" \o line.is_expired \o "\""
  ELSE line.text

\* What one `await fetch(...)` and the reading of its body come to:
\*   "ok"     - res.ok, body parsed; data is the JSON value of interest,
\*   "status" - a response with a non-success status (!res.ok),
\*   "throws" - fetch rejects (network error) or the body is not JSON.
\* A JSON value is tagged with its shape: "array" (items: its elements),
\* "string" (items: its text), "missing" (undefined, null), "object".
Ok(shape, items) == [kind |-> "ok", shape |-> shape, items |-> items]
Status == [kind |-> "status", shape |-> "missing", items |-> << >>]
Throws == [kind |-> "throws", shape |-> "missing", items |-> << >>]

\* The requests of a run, as recorded in run.calls.
TokenCall == << "POST", "/api/oauth2/token" >>
OrgsCall == << "GET", "/rest/o" >>
DevicesCall(orgId) == << "GET", "/rest/o/", orgId, "/d?includeWarranty=true" >>

\* runWarrantyCheck is called: nothing fetched yet.
RunStart ==
  [pc |-> "token", calls |-> << >>, pending |-> 0, accessToken |-> "",
   orgs |-> << >>, at |-> 0, i |-> 1, csvLines |-> << >>, src |-> << >>, received |-> << >>,
   result |-> << >>, error |-> ""]

\* throw new Error(msg), or a rejection that propagates: the run is over
\* and returns nothing.
Fail(r, msg) == [r EXCEPT !.pc = "failed", !.error = msg]

\* A token exchange that reads the body whatever the status is, and goes on
\* to the organizations without a token.
FetchToken_IgnoresFailure(res) ==
  /\ run.pc = "token"
  /\ run.pending = 1
  /\ run' = [run EXCEPT !.pending = 0, !.pc = "orgs",
                        !.accessToken = IF res.shape = "string"
                                        THEN res.items ELSE ""]
  /\ UNCHANGED << users, sessions, now, last, history, crypto, mail, report >>

\* A run that does not wait for an answer before it sends the next request.
Send_WithoutWaiting ==
  /\ run.pc \in {"token", "orgs", "devices"}
  /\ run.pending <= 1
  /\ run' = [run EXCEPT
               !.pending = @ + 1,
               !.calls = Append(@, IF run.pc = "token" THEN TokenCall
                                   ELSE IF run.pc = "orgs" THEN OrgsCall
                                   ELSE DevicesCall(run.orgs[run.i].id))]
  /\ UNCHANGED << users, sessions, now, last, history, crypto, mail, report >>

\* `fetch(...)` is called (lines 28, 46, 68): the request of the step the
\* run is at goes out, and the run waits for its answer (`await`).
Send ==
  /\ run.pc \in {"token", "orgs", "devices"}
  /\ run.pending = 0
  /\ run' = [run EXCEPT
               !.pending = 1,
               !.calls = Append(@, IF run.pc = "token" THEN TokenCall
                                   ELSE IF run.pc = "orgs" THEN OrgsCall
                                   ELSE DevicesCall(run.orgs[run.i].id))]
  /\ UNCHANGED << users, sessions, now, last, history, crypto, mail, report >>

\* Lines 23-43: the token exchange is answered.
FetchToken(res) ==
  /\ run.pc = "token"
  /\ run.pending = 1
  /\ LET r == [run EXCEPT !.pending = 0]
     IN  run' =
           IF res.kind = "throws" THEN Fail(r, "fetch failed")
           ELSE IF res.kind = "status" THEN Fail(r, "Failed to get token")
           ELSE IF res.shape # "string" \/ res.items = ""
                THEN Fail(r, "No access_token in token response")
           ELSE [r EXCEPT !.pc = "orgs", !.accessToken = res.items]
  /\ UNCHANGED << users, sessions, now, last, history, crypto, mail, report >>

\* Lines 45-62: the organization list is answered; `at` is what new Date()
\* gives.
FetchOrgs(res, at) ==
  /\ run.pc = "orgs"
  /\ run.pending = 1
  /\ LET r == [run EXCEPT !.pending = 0]
     IN  run' =
           IF res.kind = "throws" THEN Fail(r, "fetch failed")
           ELSE IF res.kind = "status" THEN Fail(r, "Failed to fetch orgs")
           ELSE IF res.shape # "array" \/ Len(res.items) = 0
                THEN [r EXCEPT !.pc = "done", !.result = << Header, NoOrgsLine >>]
           ELSE [r EXCEPT !.pc = "devices", !.orgs = res.items, !.i = 1,
                          !.at = at, !.csvLines = << Header >>]
  /\ UNCHANGED << users, sessions, now, last, history, crypto, mail, report >>

\* !v for a field of a device record: the field is absent, null or ''
\* (all three written << >>).
Blank(v) == Len(v) = 0

\* A filter that looks at the date only.
Qualifies_DateOnly(device, at) ==
  /\ ~Blank(device.expiry_date)
  /\ NotAfter(ParseDate(Substring10(device.expiry_date)),
              at + WarrantyDays * TicksPerDay)

\* Lines 79-87: the device has a serial and an expiry date, and the date is
\* not after the cutoff.
Qualifies(device, at) ==
  /\ ~Blank(device.sn)
  /\ ~Blank(device.expiry_date)
  /\ NotAfter(ParseDate(Substring10(device.expiry_date)),
              at + WarrantyDays * TicksPerDay)

\* The rows of one organization with the last device first.
RECURSIVE DeviceRows_Reversed(_, _, _)
DeviceRows_Reversed(org, devices, at) ==
  IF Len(devices) = 0
  THEN << >>
  ELSE DeviceRows_Reversed(org, Tail(devices), at)
       \o (IF Qualifies(devices[1], at)
           THEN << Row(org, devices[1], at) >>
           ELSE << >>)

\* Lines 78-95: the rows the devices of one organization add, in order.
RECURSIVE DeviceRows(_, _, _)
DeviceRows(org, devices, at) ==
  IF Len(devices) = 0
  THEN << >>
  ELSE (IF Qualifies(devices[1], at)
        THEN << Row(org, devices[1], at) >>
        ELSE << >>)
       \o DeviceRows(org, Tail(devices), at)

\* For each row DeviceRows gives, the place it came from: << organization
\* index, device index >>.
RowSources(i, devices, at) ==
  LET kept == SelectSeq([k \in 1 .. Len(devices) |-> k],
                        LAMBDA k : Qualifies(devices[k], at))
  IN  [n \in 1 .. Len(kept) |-> << i, kept[n] >>]

\* Lines 98-102: the csv returned.
Finish(csvLines) ==
  IF Len(csvLines) = 1 THEN csvLines \o << NoDevicesLine >> ELSE csvLines

\* The loop ends after organization i: return the csv.
Advance(r) ==
  IF r.i >= Len(r.orgs)
  THEN [r EXCEPT !.pc = "done", !.i = @ + 1, !.result = Finish(r.csvLines)]
  ELSE [r EXCEPT !.i = @ + 1]

\* Lines 65-96, one turn of the loop: the device listing of organization
\* run.i is answered.
FetchDevices(res) ==
  /\ run.pc = "devices"
  /\ run.pending = 1
  /\ LET org == run.orgs[run.i]
         r == [run EXCEPT !.pending = 0, !.received = Append(@, res)]
         devices == IF res.shape = "array" THEN res.items ELSE << >>
     IN  run' =
           IF res.kind = "throws" THEN Fail(r, "fetch failed")
           ELSE IF res.kind = "status" THEN Advance(r)
           ELSE IF res.shape = "object"
                THEN Fail(r, "devices is not iterable")
           ELSE Advance([r EXCEPT
                  !.csvLines = @ \o DeviceRows(org, devices, run.at),
                  !.src = @ \o RowSources(run.i, devices, run.at)])
  /\ UNCHANGED << users, sessions, now, last, history, crypto, mail, report >>

RunInit ==
  /\ users = EmptyDb
  /\ sessions = [s \in Sessions |-> EmptySession]
  /\ now = Epoch
  /\ last = Response("start", "", NoPayload)
  /\ authed = [s \in Sessions |-> FALSE]
  /\ issued = [e \in Emails |-> ""]
  /\ consumed = [e \in Emails |-> {}]
  /\ issuedAt = [e \in Emails |-> 0]
  /\ resentAt = [s \in Sessions |-> << >>]
  /\ submitted = [e \in Emails |-> NoForm]
  /\ crypto = CryptoOff
  /\ run = RunStart
  /\ mail = NoMail
  /\ report = NoReport

(***************************************************************************)
(* The date filter: one organization with one device, every date of a      *)
(* list around the 90-day boundary, every time of day of two days.         *)
(***************************************************************************)
Acme == [id |-> "1", name |-> "Acme"]
Beta == [id |-> "2", name |-> "Beta"]

\* "AB-12"
SerialAB12 == << "A", "B", "-", "1", "2" >>
\* "CD-99"
SerialCD99 == << "C", "D", "-", "9", "9" >>

\* The long form of a date string: YYYY-MM-DDT00:00:00Z.
WithTime(date) == date \o << "T00:00:00Z" >>

NowDates == {Date(2024, 12, 1), Date(2023, 12, 3)}

\* new Date(): every tick of the days above.
NowInstants == {Instant(d, tod) : d \in NowDates, tod \in 0 .. (TicksPerDay - 1)}

ExpiryDates ==
  {Date(2023, 12, 2), Date(2023, 12, 3), Date(2024, 3, 1), Date(2024, 3, 2),
   Date(2024, 3, 3), Date(2024, 11, 30), Date(2024, 12, 1), Date(2024, 12, 2),
   Date(2024, 12, 5),
   Date(2025, 2, 28), Date(2025, 3, 1), Date(2025, 3, 2)}

\* device.expiry_date: a date, a date with a time, or no date at all.
ExpiryStrings ==
  ExpiryDates \cup {WithTime(Date(2025, 1, 10)), WithTime(Date(2025, 3, 2))}
    \cup {<< "n/a" >>}

DatedDevices ==
  {[sn |-> sn, expiry_date |-> x, expired |-> b] :
     sn \in {SerialAB12, SerialCD99}, x \in ExpiryStrings, b \in BOOLEAN}

NextDates ==
  \/ Send
  \/ FetchToken(Ok("string", "tok"))
  \/ \E at \in NowInstants : FetchOrgs(Ok("array", << Acme >>), at)
  \/ \E dev \in DatedDevices : FetchDevices(Ok("array", << dev >>))

SpecDates == RunInit /\ [][NextDates]_vars

(***************************************************************************)
(* The structure of a run: every answer upstream can give at each step,    *)
(* up to two organizations, up to two devices each.                        *)
(***************************************************************************)
RunNow == Instant(Date(2024, 12, 1), 1)

TokenResponses ==
  {Ok("string", "tok"), Ok("string", ""), Ok("missing", << >>), Status, Throws}

OrgResponses ==
  {Status, Throws, Ok("missing", << >>), Ok("object", << >>),
   Ok("array", << >>), Ok("array", << Acme >>), Ok("array", << Acme, Beta >>)}

\* Within the window; past and flagged expired; beyond the window; without a
\* serial; without an expiry date.
Near == [sn |-> SerialAB12, expiry_date |-> Date(2025, 1, 10), expired |-> FALSE]
Past ==
  [sn |-> << "C", "x", "3" >>, expiry_date |-> WithTime(Date(2024, 11, 30)),
   expired |-> TRUE]
Far == [sn |-> SerialAB12, expiry_date |-> Date(2025, 3, 2), expired |-> FALSE]
NoSerial == [sn |-> << >>, expiry_date |-> Date(2024, 11, 30), expired |-> TRUE]
NoExpiry == [sn |-> SerialAB12, expiry_date |-> << >>, expired |-> TRUE]

RunDevices == {Near, Past, Far, NoSerial, NoExpiry}

DeviceLists ==
  {<< >>} \cup {<< d >> : d \in RunDevices}
          \cup {<< d, e >> : d \in RunDevices, e \in RunDevices}

DeviceResponses ==
  {Status, Throws, Ok("missing", << >>)} \cup {Ok("array", l) : l \in DeviceLists}

NextRun ==
  \/ Send
  \/ \E res \in TokenResponses : FetchToken(res)
  \/ \E res \in OrgResponses : FetchOrgs(res, RunNow)
  \/ \E res \in DeviceResponses : FetchDevices(res)

SpecRun == RunInit /\ [][NextRun]_vars

\* The requests a run over the organizations `orgs` makes when nothing stops
\* it: one for the token, one for the organizations, one per organization.
ExpectedCalls(orgs) ==
  << TokenCall, OrgsCall >> \o [k \in 1 .. Len(orgs) |-> DevicesCall(orgs[k].id)]

\* Every request made so far was made once, in its turn.
CallsOnce ==
  /\ Len(run.calls) <= 2 + Len(run.orgs)
  /\ \A k \in 1 .. Len(run.calls) : run.calls[k] = ExpectedCalls(run.orgs)[k]

\* The token answers that carry no token.
NoTokenResponses ==
  {res \in TokenResponses :
     res.kind = "status" \/ (res.kind = "ok" /\ (res.shape # "string" \/ res.items = ""))}

\* C12: the run is fail-fast in its first two steps.  When the token
\* exchange answers with a non-success status or a body without a token, or
\* the organization listing answers with a non-success status, the run ends
\* with an error, returns no report and makes no further request; and no
\* request of a run is ever made twice.
C12_FailFast ==
  /\ []CallsOnce
  /\ [][/\ (\E res \in NoTokenResponses : FetchToken(res)) =>
             /\ run'.pc = "failed"
             /\ run'.error # ""
             /\ run'.result = << >>
             /\ run'.calls = << TokenCall >>
        /\ (run.pc = "orgs" /\ FetchOrgs(Status, RunNow)) =>
             /\ run'.pc = "failed"
             /\ run'.error # ""
             /\ run'.result = << >>
             /\ run'.calls = << TokenCall, OrgsCall >>
        /\ run.pc = "failed" => run' = run]_vars

\* C12 witness: the organization listing was refused after a good token
\* exchange; the run ended with that error after two requests.
C12_Witness ==
  /\ run.pc = "failed"
  /\ run.error = "Failed to fetch orgs"
  /\ run.result = << >>
  /\ run.calls = << TokenCall, OrgsCall >>


\* A device listing that failed: a non-success status, a request that was
\* rejected, or a body that could not be read.
ListingFailed(res) == res.kind \in {"status", "throws"}

\* The device listing of organization run.i has just been answered.
Listed == run.pc = "devices" /\ Len(run'.received) = Len(run.received) + 1

\* C13: a failure of the device listing of one organization never aborts
\* the run.  The organization adds no row, the run goes on to the next
\* organization or returns its csv, and a run that returned has queried
\* every organization.
C13_ListingFailureSkipped ==
  /\ [](run.pc = "done" /\ Len(run.orgs) > 0 =>
          Len(run.calls) = 2 + Len(run.orgs))
  /\ [][Listed /\ ListingFailed(run'.received[Len(run'.received)]) =>
          /\ run'.pc \in {"devices", "done"}
          /\ run'.csvLines = run.csvLines
          /\ run'.i = run.i + 1
          /\ run'.pc = "done" => run'.result = Finish(run.csvLines)]_vars

\* The one device of a run of SpecDates, once its listing was answered.
TheDevice == run.received[1].items[1]

\* Its expiry_date reads as a calendar date.
Dated(device) == ParseDate(Substring10(device.expiry_date)) # NaN

\* The calendar day (days since the epoch) of now and of the expiry date.
NowDay == run.at \div TicksPerDay
ExpiryDay(device) == DaysFromCivil(Substring10(device.expiry_date))

\* The report holds the device's row / holds no row.
Included == run.result = << Header, Row(run.orgs[1], TheDevice, run.at) >>
Excluded == run.result = << Header, NoDevicesLine >>

\* C14: the boundary is inclusive at 90 days.  Whatever the time of day of
\* now, a device whose expiry date is 90 days after now's date, or any
\* earlier date, is in the report, and a device whose expiry date is 91
\* days after now's date is not.
C14_InclusiveAt90 ==
  run.pc = "done" /\ Dated(TheDevice) =>
    LET k == ExpiryDay(TheDevice) - NowDay
    IN  /\ k <= WarrantyDays => Included
        /\ k = WarrantyDays + 1 => Excluded

\* C14 witness: at the last tick of the day a device expiring exactly 90
\* days after today's date is reported.
C14_Witness ==
  /\ run.pc = "done"
  /\ run.at % TicksPerDay = TicksPerDay - 1
  /\ Dated(TheDevice)
  /\ ExpiryDay(TheDevice) - NowDay = WarrantyDays
  /\ Included

\* C14, the other side of the boundary: at the first tick of the day a
\* device expiring 91 days after today's date is left out.
C14_WitnessExcluded ==
  /\ run.pc = "done"
  /\ run.at % TicksPerDay = 0
  /\ Dated(TheDevice)
  /\ ExpiryDay(TheDevice) - NowDay = WarrantyDays + 1
  /\ Excluded

\* The report of a run of SpecDates holds a row (its second line).
HasRow1 == run.pc = "done" /\ Len(run.result) = 2 /\ run.result[2].kind = "row"

\* C16: days_until_expiry is counted on calendar dates.  Whatever the time
\* of day of now, the value in a row is the number of days from now's date
\* to the device's expiry date: 0 for today, negative for a past date.
C16_CalendarDays ==
  HasRow1 => run.result[2].days_until_expiry = ExpiryDay(TheDevice) - NowDay

\* C16 witness: late in the day, a device that expired the day before is
\* reported with -1.
C16_Witness ==
  /\ HasRow1
  /\ run.at % TicksPerDay = TicksPerDay - 1
  /\ ExpiryDay(TheDevice) - NowDay = -1
  /\ run.result[2].days_until_expiry = -1

\* C16, today: late in the day, a device expiring today is reported with 0.
C16_WitnessToday ==
  /\ HasRow1
  /\ run.at % TicksPerDay = TicksPerDay - 1
  /\ ExpiryDay(TheDevice) = NowDay
  /\ run.result[2].days_until_expiry = 0

\* C17: the is_expired column of a row is YES exactly when the device
\* record's expired flag is true, whatever the day count of the row is.
C17_ExpiredVerbatim ==
  HasRow1 => (run.result[2].is_expired = "YES" <=> TheDevice.expired = TRUE)
             /\ run.result[2].is_expired \in {"YES", "NO"}

\* C17 witness: a device whose date is past but whose flag is false is
\* reported with a negative day count and NO.
C17_Witness ==
  /\ HasRow1
  /\ run.result[2].days_until_expiry < 0
  /\ TheDevice.expired = FALSE
  /\ run.result[2].is_expired = "NO"

\* C17, the other disagreement: a device whose date is still ahead but whose
\* flag is true is reported with a positive day count and YES.
C17_WitnessFlagged ==
  /\ HasRow1
  /\ run.result[2].days_until_expiry > 0
  /\ TheDevice.expired = TRUE
  /\ run.result[2].is_expired = "YES"

\* The scenario: now is some instant of 2024-12-01, the organization list is
\* << Acme >>, and Acme's one device is AB-12, expiring
\* 2025-01-10T00:00:00Z, not flagged expired.
ScenarioDevice ==
  [sn |-> SerialAB12, expiry_date |-> WithTime(Date(2025, 1, 10)),
   expired |-> FALSE]

ScenarioRan ==
  /\ run.pc = "done"
  /\ NowDay = DaysFromCivil(Date(2024, 12, 1))
  /\ run.orgs = << Acme >>
  /\ run.received = << Ok("array", << ScenarioDevice >>) >>

\* "Acme","AB12","2025-01-10","40","NO"
ScenarioRow ==
  [kind |-> "row", org_name |-> "Acme",
   serial_number |-> << "A", "B", "1", "2" >>,
   warranty_expiry_date |-> Date(2025, 1, 10),
   days_until_expiry |-> 40, is_expired |-> "NO"]

\* C15 as stated: in the scenario the device is left out as beyond 90 days
\* and the output is the header followed by the 'no devices' line.
C15_ScenarioExcluded == ScenarioRan => run.result = << Header, NoDevicesLine >>

\* C15: in the scenario the device, 40 days ahead, is within the 90 days
\* and the output is the header followed by the one row
\* "Acme","AB12","2025-01-10","40","NO".
C15_ScenarioIncluded == ScenarioRan => run.result = << Header, ScenarioRow >>

\* C15 witness: the scenario ran, at the last tick of 2024-12-01, and
\* returned the header and the row.
C15_Witness ==
  /\ ScenarioRan
  /\ run.at = Instant(Date(2024, 12, 1), TicksPerDay - 1)
  /\ run.result = << Header, ScenarioRow >>

\* The device record carries a serial and an expiry date.
HasBoth(device) == Len(device.sn) > 0 /\ Len(device.expiry_date) > 0

\* Its expiry date (midnight of it) is on or before now + 90 days.
OnOrBeforeCutoff(device) ==
  /\ Dated(device)
  /\ ExpiryDay(device) * TicksPerDay <= run.at + WarrantyDays * TicksPerDay

\* The organizations (by index) whose device listing succeeded so far.
ListedOrgs == {o \in 1 .. Len(run.received) : run.received[o].kind = "ok"}

\* The devices received so far: << organization index, device index >>.
ReceivedDevices ==
  UNION {{<< o, d >> : d \in 1 .. Len(run.received[o].items)} :
           o \in {l \in ListedOrgs : run.received[l].shape = "array"}}

DeviceAt(p) == run.received[p[1]].items[p[2]]

\* The devices the rows pushed so far came from.
RowPlaces == {run.src[n] : n \in 1 .. Len(run.src)}

\* The lines after the header are the rows of the places in run.src.
RowsMatchPlaces ==
  /\ Len(run.csvLines) = Len(run.src) + 1
  /\ \A n \in 1 .. Len(run.src) :
       run.csvLines[n + 1] =
         Row(run.orgs[run.src[n][1]], DeviceAt(run.src[n]), run.at)

\* C18: a device record without a serial or without an expiry date never
\* produces a row, whatever else it carries; every device with both whose
\* expiry date is on or before the cutoff, in an organization whose listing
\* succeeded, produces exactly one row.
C18_RowFilter ==
  run.pc \in {"devices", "done", "failed"} /\ Len(run.orgs) > 0 =>
    /\ RowsMatchPlaces
    /\ \A p \in RowPlaces : p \in ReceivedDevices /\ HasBoth(DeviceAt(p))
    /\ \A p \in ReceivedDevices :
         HasBoth(DeviceAt(p)) /\ OnOrBeforeCutoff(DeviceAt(p)) =>
           Cardinality({n \in 1 .. Len(run.src) : run.src[n] = p}) = 1
    /\ run.pc = "done" => run.result = Finish(run.csvLines)

\* C18 witness: Acme's listing held a device without a serial, flagged
\* expired, and a device within the window; Beta's listing was refused.
\* The report holds the one row.
C18_Witness ==
  /\ run.pc = "done"
  /\ run.received = << Ok("array", << NoSerial, Near >>), Status >>
  /\ run.result = << Header, Row(Acme, Near, RunNow) >>

\* Every organization has been asked for its devices and no device received
\* qualifies: every listing failed, or was empty, or held only devices the
\* filter leaves out.
NothingQualifies ==
  /\ Len(run.orgs) > 0
  /\ Len(run.received) = Len(run.orgs)
  /\ \A p \in ReceivedDevices :
       ~(HasBoth(DeviceAt(p)) /\ OnOrBeforeCutoff(DeviceAt(p)))

\* The organization listing was answered without any organization.
NoOrganizations ==
  /\ Len(run.calls) = 2
  /\ run.pending = 0
  /\ Len(run.orgs) = 0
  /\ run.error = ""

Kinds(lines) == {lines[n].kind : n \in 1 .. Len(lines)}

\* C19: the report is never empty and never replaced by an exception for
\* empty data.  Every report starts with the header; without organizations
\* it is the header and the 'no organizations found' line; with
\* organizations but no qualifying device, also when every device listing
\* failed, it is the header and the 'no devices' line; a report never holds
\* both a note and a row.
C19_NeverEmpty ==
  /\ run.pc = "done" =>
       /\ Len(run.result) >= 2
       /\ run.result[1] = Header
       /\ ~({"note", "row"} \subseteq Kinds(run.result))
  /\ NoOrganizations => run.pc = "done" /\ run.result = << Header, NoOrgsLine >>
  /\ NothingQualifies =>
       run.pc = "done" /\ run.result = << Header, NoDevicesLine >>

\* Before(p, q): place p comes before place q, organization first, device
\* second.
Before(p, q) == p[1] < q[1] \/ (p[1] = q[1] /\ p[2] < q[2])

\* C20: rows appear in organization-then-device order as received.  The
\* rows are those of the places in run.src, the places follow one another
\* in the order of the organization list and, within an organization, of
\* its device list, so no row is repeated or moved; the report returned
\* holds the rows in that order.
C20_ReceivedOrder ==
  run.pc \in {"devices", "done", "failed"} /\ Len(run.orgs) > 0 =>
    /\ RowsMatchPlaces
    /\ \A m, n \in 1 .. Len(run.src) : m < n => Before(run.src[m], run.src[n])
    /\ run.pc = "done" /\ Len(run.src) > 0 => run.result = run.csvLines

\* C20 witness: two organizations, the later date listed before the
\* earlier one in Acme; the rows come out as listed.
C20_Witness ==
  /\ run.pc = "done"
  /\ run.received = << Ok("array", << Near, Past >>), Ok("array", << Far, Past >>) >>
  /\ run.result = << Header, Row(Acme, Near, RunNow), Row(Acme, Past, RunNow),
                     Row(Beta, Past, RunNow) >>

\* A value between double quotes.
Quoted(text) == "\"" \o text \o "\""

\* C21: a qualifying device yields one row of five double-quoted fields
\* separated by commas: organization name, normalized serial, the first ten
\* characters of the expiry date, days until expiry, YES or NO.  For Acme's
\* device CD-99 expiring 2024-12-05, not flagged, on 2024-12-01 the row is
\* "Acme","CD99","2024-12-05","4","NO".
C21_RowText ==
  HasRow1 =>
    /\ CsvLine(run.result[2]) =
         Quoted(run.orgs[1].name) \o ","
         \o Quoted(Text(StripNonAlnum(TheDevice.sn))) \o ","
         \o Quoted(DateText(Substring10(TheDevice.expiry_date))) \o ","
         \o Quoted(ToString(ExpiryDay(TheDevice) - NowDay)) \o ","
         \o Quoted(IF TheDevice.expired THEN "YES" ELSE "NO")
    /\ (/\ NowDay = DaysFromCivil(Date(2024, 12, 1))
        /\ run.orgs[1] = Acme
        /\ TheDevice = [sn |-> SerialCD99, expiry_date |-> Date(2024, 12, 5),
                        expired |-> FALSE]) =>
         CsvLine(run.result[2]) = "\"Acme\",\"CD99\",\"2024-12-05\",\"4\",\"NO\""

\* C21 witness: the run of the example, late on 2024-12-01, returned the
\* header and the example's row.
C21_Witness ==
  /\ HasRow1
  /\ run.at = Instant(Date(2024, 12, 1), TicksPerDay - 1)
  /\ TheDevice = [sn |-> SerialCD99, expiry_date |-> Date(2024, 12, 5),
                  expired |-> FALSE]
  /\ CsvLine(run.result[2]) = "\"Acme\",\"CD99\",\"2024-12-05\",\"4\",\"NO\""

(***************************************************************************)
(* Serial normalization on its own: a serial of at most SerialLen          *)
(* characters (letters, digits, punctuation, space), or "AB-12:34", is     *)
(* normalized, and the result is normalized again.                         *)
(***************************************************************************)
SerialLen == 3
SerialChars == {"A", "x", "9", "-", ":", "_", " "}

\* "AB-12:34"
SerialAB1234 == << "A", "B", "-", "1", "2", ":", "3", "4" >>

RECURSIVE SerialsUpTo(_)
SerialsUpTo(n) ==
  IF n = 0
  THEN {<< >>}
  ELSE LET shorter == SerialsUpTo(n - 1)
       IN  shorter \cup {Append(s, ch) : s \in shorter, ch \in SerialChars}

SerialInputs == SerialsUpTo(SerialLen) \cup {SerialAB1234}

SerialInit ==
  /\ users = EmptyDb
  /\ sessions = [s \in Sessions |-> EmptySession]
  /\ now = Epoch
  /\ last = Response("start", "", NoPayload)
  /\ authed = [s \in Sessions |-> FALSE]
  /\ issued = [e \in Emails |-> ""]
  /\ consumed = [e \in Emails |-> {}]
  /\ issuedAt = [e \in Emails |-> 0]
  /\ resentAt = [s \in Sessions |-> << >>]
  /\ submitted = [e \in Emails |-> NoForm]
  /\ crypto = CryptoOff
  /\ \E sn \in SerialInputs :
       run = [pc |-> "sn", sn |-> sn, serial |-> << >>, again |-> << >>]
  /\ mail = NoMail
  /\ report = NoReport

\* Line 83: const serial = device.sn.replace(/[^a-zA-Z0-9]/g, '')
Normalize ==
  /\ run.pc = "sn"
  /\ run' = [run EXCEPT !.pc = "serial", !.serial = StripNonAlnum(run.sn)]
  /\ UNCHANGED << users, sessions, now, last, history, crypto, mail, report >>

\* The same replacement applied to a serial that went through it already
\* (a serial read back from a report).
NormalizeAgain ==
  /\ run.pc = "serial"
  /\ run' = [run EXCEPT !.pc = "again", !.again = StripNonAlnum(run.serial)]
  /\ UNCHANGED << users, sessions, now, last, history, crypto, mail, report >>

SerialNext == Normalize \/ NormalizeAgain

SerialSpec == SerialInit /\ [][SerialNext]_vars

\* The positions of sn that hold an ASCII letter or digit.
KeptPositions(sn) == {i \in 1 .. Len(sn) : sn[i] \in Alnum}

\* C22: normalization removes every character that is not an ASCII letter
\* or digit and nothing else: the result holds letters and digits only, and
\* it is the letters and digits of the serial, all of them, in their order.
\* Normalizing the result again returns it unchanged, and "AB-12:34"
\* becomes "AB1234".
C22_Normalization ==
  /\ run.pc \in {"serial", "again"} =>
       /\ \A k \in 1 .. Len(run.serial) : run.serial[k] \in Alnum
       /\ Len(run.serial) = Cardinality(KeptPositions(run.sn))
       /\ \A i \in KeptPositions(run.sn) :
            run.serial[Cardinality({j \in KeptPositions(run.sn) : j <= i})]
              = run.sn[i]
       /\ run.sn = SerialAB1234 =>
            Text(run.serial) = "AB1234"
  /\ run.pc = "again" => run.again = run.serial

\* C22 witness: "AB-12:34" was normalized to "AB1234", and "AB1234" to
\* itself.
C22_Witness ==
  /\ run.pc = "again"
  /\ run.sn = SerialAB1234
  /\ Text(run.serial) = "AB1234"
  /\ run.again = run.serial

\* The request that has just gone out, if one has.
Sent == Len(run'.calls) = Len(run.calls) + 1
LastCall(r) == r.calls[Len(r.calls)]

\* C23: a run is a strictly sequential chain.  The organization listing is
\* requested only after a token was obtained, a device listing only after
\* the organization listing succeeded; device listings are requested one
\* organization at a time in list order, each only when every earlier
\* request has been answered, so that at most one request is outstanding;
\* the token endpoint, the organization endpoint and each organization's
\* device endpoint are called at most once.
C23_SequentialChain ==
  /\ [](run.pending \in {0, 1})
  /\ [](/\ CallsOnce
        /\ \A j, k \in 1 .. Len(run.calls) :
             j # k => run.calls[j] # run.calls[k])
  /\ [][run'.calls # run.calls =>
          /\ Sent
          /\ run.pending = 0
          /\ Len(run.calls) >= 1 => run.accessToken # ""
          /\ Len(run.calls) >= 2 =>
               /\ run.pc = "devices"
               /\ Len(run.orgs) > 0
               /\ Len(run.received) = Len(run.calls) - 2
               /\ LastCall(run') =
                    DevicesCall(run.orgs[Len(run.received) + 1].id)]_vars

\* C23 witness: Acme's listing has been answered and the request for
\* Beta's devices, the fourth of the run, is the one outstanding.
C23_Witness ==
  /\ run.pc = "devices"
  /\ run.pending = 1
  /\ Len(run.received) = 1
  /\ run.calls = ExpectedCalls(<< Acme, Beta >>)

(***************************************************************************)
(* The OTP mail.  POST /login and POST /login/resend run without           *)
(* interruption up to the call of sendOtpEmail (the database statements    *)
(* are synchronous); the handler then waits for the mail transport and     *)
(* answers when sendOtpEmail resolves.  In between, other requests are     *)
(* handled.  LoginStore / ResendStore are the part before the wait,        *)
(* MailDone the part after it; LoginPost and ResendPost above are a Store  *)
(* followed at once by its MailDone.                                       *)
(* mail.pending: the handlers waiting; mail.written[e]: the codes written  *)
(* for e, in the order of the writes; mail.inbox[e]: the codes delivered   *)
(* to e, in the order of delivery.                                         *)
(***************************************************************************)
\* Codes written per account in one behaviour of SpecMail.
MaxWrites == 2

Sending(op, s, email, otpCode) ==
  [op |-> op, s |-> s, email |-> email, code |-> otpCode,
   n |-> Len(mail.written[email]) + 1]

AwaitMail(op, s, email, otpCode) ==
  [mail EXCEPT !.pending = @ \cup {Sending(op, s, email, otpCode)},
               !.written[email] = Append(@, otpCode)]

\* POST /login up to `await sendOtpEmail(user, otpCode)`.
LoginStore(s, email, otpCode) ==
  IF email = ""
  THEN /\ last' = Response("POST /login", "Missing email", NoPayload)
       /\ UNCHANGED << users, sessions, now, mail, report >>
  ELSE /\ Len(mail.written[email]) < MaxWrites
       /\ users' = UpdateOtp(findOrCreateUserByEmail(users, email), email, otpCode)
       /\ mail' = AwaitMail("POST /login", s, email, otpCode)
       /\ last' = Response("POST /login", "awaiting mail", NoPayload)
       /\ UNCHANGED << sessions, now >>

\* POST /login/resend up to `sendOtpEmail(user, otpCode).then(...)`.
ResendStore(s, email, otpCode) ==
  IF email = ""
  THEN /\ last' = Response("POST /login/resend", "No email provided.",
                           NoPayload)
       /\ UNCHANGED << users, sessions, now, mail, report >>
  ELSE IF ~HasRow(users, email)
  THEN /\ last' = Response("POST /login/resend", "User not found.",
                           NoPayload)
       /\ UNCHANGED << users, sessions, now, mail, report >>
  ELSE IF InCooldown(now, sessions[s].nextResendAllowedTime)
  THEN /\ last' = Response("POST /login/resend", "Please wait",
                           NoPayload)
       /\ UNCHANGED << users, sessions, now, mail, report >>
  ELSE /\ Len(mail.written[email]) < MaxWrites
       /\ sessions' = [sessions EXCEPT ![s].nextResendAllowedTime = NextAllowed(now)]
       /\ users' = UpdateOtp(users, email, otpCode)
       /\ mail' = AwaitMail("POST /login/resend", s, email, otpCode)
       /\ last' = Response("POST /login/resend", "awaiting mail", NoPayload)
       /\ UNCHANGED now

\* What the handler answers once sendOtpEmail has resolved.
Answer(op) == IF op = "POST /login" THEN "otp page" ELSE "success"

Settle(p, delivered) ==
  [mail EXCEPT !.pending = @ \ {p},
               !.inbox[p.email] = IF delivered THEN Append(@, p.code) ELSE @]

\* A handler that writes the code to the database only when its mail went
\* out.
MailDone_StoresOnDelivery(p, delivered) ==
  /\ p \in mail.pending
  /\ mail' = Settle(p, delivered)
  /\ users' = IF delivered /\ HasRow(users, p.email)
              THEN UpdateOtp(users, p.email, p.code) ELSE users
  /\ last' = Response(p.op, Answer(p.op), << delivered >>)
  /\ UNCHANGED << sessions, now >>

\* A handler that takes the code back and reports an error when the mail
\* could not be sent.
MailDone_FailureRollsBack(p, delivered) ==
  /\ p \in mail.pending
  /\ mail' = Settle(p, delivered)
  /\ users' = IF delivered THEN users ELSE ClearOtp(users, p.email)
  /\ last' = Response(p.op, IF delivered THEN Answer(p.op)
                            ELSE "Failed to send code", << delivered >>)
  /\ UNCHANGED << sessions, now >>

\* sendOtpEmail resolves for the waiting handler p: transporter.sendMail
\* delivered the mail, or it threw and the error was logged (lines 54-59).
\* Either way the handler goes on to its answer.
MailDone(p, delivered) ==
  /\ p \in mail.pending
  /\ mail' = Settle(p, delivered)
  /\ last' = Response(p.op, Answer(p.op), << delivered >>)
  /\ UNCHANGED << users, sessions, now >>

\* Every handler that can wait on a mail in SpecMail.
Sendings ==
  [op : {"POST /login", "POST /login/resend"}, s : Sessions, email : Emails,
   code : Codes, n : 1 .. MaxWrites]

MailEmails == {"a@x", ""}

NextMail ==
  \/ \E s \in Sessions, e \in MailEmails, c \in Codes :
       LoginStore(s, e, c) /\ UNCHANGED << history, crypto, run, report >>
  \/ \E s \in Sessions, e \in MailEmails, c \in Codes :
       ResendStore(s, e, c) /\ UNCHANGED << history, crypto, run, report >>
  \/ \E p \in Sendings, d \in BOOLEAN :
       MailDone(p, d) /\ UNCHANGED << history, crypto, run, report >>
  \/ \E s \in Sessions, e \in MailEmails, c \in CodeInputs :
       OtpPost(s, e, c) /\ UNCHANGED << history, crypto, run, mail, report >>

SpecMail == Init /\ [][NextMail]_vars

\* The code written last for the account, "" when none was.
LastWritten(e) ==
  IF Len(mail.written[e]) = 0 THEN "" ELSE mail.written[e][Len(mail.written[e])]

\* The codes a verification for e would accept now.
Accepted(e) ==
  {c \in CodeInputs : c # "" /\ HasRow(users, e) /\ ~OtpMismatch(users[e].otp, c)}

\* A handler has just written a code for e.
Wrote(e) == Len(mail'.written[e]) = Len(mail.written[e]) + 1

\* C24: concurrent POST /login and POST /login/resend for one account are
\* last-writer-wins.  Each write leaves its own code stored; the end of a
\* mail delivery, whenever it comes, changes no stored code; at every
\* moment at most one code is accepted, and it is the one written last: a
\* code written earlier is refused also when its mail arrives after the
\* later one.
C24_LastWriterWins ==
  /\ [](\A e \in Emails :
          /\ Cardinality(Accepted(e)) <= 1
          /\ Accepted(e) \subseteq {LastWritten(e)})
  /\ [][/\ \A e \in Emails : Wrote(e) => users'[e].otp = LastWritten(e)'
        /\ mail'.pending # mail.pending /\ mail'.written = mail.written =>
             users' = users]_vars

\* C24 witness: AB was written before CD, the mail with CD arrived before
\* the mail with AB, CD is the stored code and a verification was refused.
C24_Witness ==
  /\ mail.written["a@x"] = << "AB", "CD" >>
  /\ mail.inbox["a@x"] = << "CD", "AB" >>
  /\ Accepted("a@x") = {"CD"}
  /\ last.op = "POST /login/otp"
  /\ last.result = "Invalid OTP"

\* C25: a mail that cannot be delivered is not fatal and rolls nothing
\* back.  The code is stored before the delivery is attempted; when
\* sendOtpEmail is done, delivered or not, the handler gives its normal
\* answer (the OTP page, or success) and the users table and the sessions
\* stay as they are, so the stored code remains the one accepted.
C25_MailFailureNotFatal ==
  /\ [](\A p \in mail.pending :
          /\ p.n <= Len(mail.written[p.email])
          /\ mail.written[p.email][p.n] = p.code)
  /\ [][\A p \in mail.pending, d \in BOOLEAN :
          MailDone(p, d) =>
            /\ last'.result = Answer(p.op)
            /\ last'.result \in {"otp page", "success"}
            /\ users' = users
            /\ sessions' = sessions
            /\ Accepted(p.email)' = Accepted(p.email)]_vars

\* C25 witness: no mail was ever delivered to the account, nothing is
\* pending, and the code stored for it was accepted all the same.
C25_Witness ==
  /\ mail.written["a@x"] # << >>
  /\ mail.inbox["a@x"] = << >>
  /\ mail.pending = {}
  /\ last.op = "POST /login/otp"
  /\ last.result = "redirect /warranty-check"
  /\ sessions["s1"].userEmail = "a@x"

\* C25, the moment of the failure: sendOtpEmail has just failed for a
\* POST /login, the handler answered with the OTP page and the code it
\* stored is still the one accepted.
C25_WitnessFailure ==
  /\ last.op = "POST /login"
  /\ last.result = "otp page"
  /\ last.payload = << FALSE >>
  /\ mail.inbox["a@x"] = << >>
  /\ Accepted("a@x") = {LastWritten("a@x")}

\* C26: POST /login for an email without an account creates exactly one
\* row, with an empty OTP and empty credential columns, and then stores the
\* code in it; for an email with an account it creates no row and leaves
\* the account's credential columns as they are; no other row changes, and
\* the table holds at most one row per email (email is its primary key).
C26_FindOrCreate ==
  [][last'.op = "POST /login" =>
       \A s \in Sessions, e \in Emails, c \in PanelCodes :
         LoginPost(s, e, c) =>
           /\ ~HasRow(users, e) =>
                /\ DOMAIN users' = DOMAIN users \cup {e}
                /\ Cardinality(DOMAIN users') = Cardinality(DOMAIN users) + 1
                /\ findOrCreateUserByEmail(users, e)[e].otp = ""
                /\ \A k \in Fields :
                     findOrCreateUserByEmail(users, e)[e][k] = Null
                /\ users'[e] = [NewRow EXCEPT !.otp = c]
           /\ HasRow(users, e) =>
                /\ DOMAIN users' = DOMAIN users
                /\ \A k \in Fields : users'[e][k] = users[e][k]
                /\ users'[e].otp = c
           /\ \A o \in DOMAIN users \ {e} : users'[o] = users[o]]_vars

\* C26 witness: a code was requested for an account that has saved
\* credentials; the row holds the code and the credentials, and the other
\* email has a row of its own.
C26_Witness ==
  /\ last.op = "POST /login"
  /\ last.result = "otp page"
  /\ DOMAIN users = Emails
  /\ \E e \in Emails :
       /\ submitted[e] = FilledForm
       /\ users[e].otp \in PanelCodes
       /\ users[e].smtp_pass = encrypt(FilledForm.smtp_pass)

\* C30: a panel update replaces all seven credential columns of the
\* session's own account in one step, storing the empty string for every
\* field the submission omits, and leaves the account's email and stored
\* OTP and every other account's row unchanged.
C30_PanelUpdateFrame ==
  [][last'.op = "POST /panel" =>
       \A s \in Sessions, f \in Forms :
         (PanelPost(s, f) /\ PanelSaved) =>
           LET e == sessions[s].userEmail
           IN  /\ DOMAIN users' = DOMAIN users
               /\ \A o \in DOMAIN users \ {e} : users'[o] = users[o]
               /\ HasRow(users, e) =>
                    /\ users'[e].otp = users[e].otp
                    /\ \A k \in Fields :
                         /\ users'[e][k] = encrypt(f[k])
                         /\ f[k] \in {Undefined, << >>} => users'[e][k] = << >>
                         /\ decrypt(users'[e][k]) = Saved(f[k])]_vars

\* C30 witness: a partial form was saved over an account whose code is
\* still stored: the omitted host is stored empty, the client id is
\* stored sealed, the code is still there, and the other account keeps its
\* filled form.
C30_Witness ==
  /\ last.op = "POST /panel"
  /\ last.result = "Settings Updated"
  /\ \E e \in Emails :
       /\ HasRow(users, e)
       /\ submitted[e] = PartialForm
       /\ users[e].smtp_host = << >>
       /\ users[e].peplink_client_id = encrypt(PartialForm.peplink_client_id)
       /\ users[e].otp \in PanelCodes
       /\ \E o \in Emails \ {e} :
            /\ HasRow(users, o)
            /\ submitted[o] = FilledForm
            /\ users[o].smtp_host = encrypt(FilledForm.smtp_host)

\* C27: an account whose stored code is empty cannot be authenticated.
\* Every POST /login/otp for it, whatever code it submits (the empty one
\* included), is refused and changes neither the sessions nor the table;
\* the account's code stays empty until POST /login or POST /login/resend
\* stores a new one.
C27_EmptyCodeRefused ==
  [][/\ last'.op = "POST /login/otp" =>
          \A s \in Sessions, e \in Emails, c \in CodeInputs :
            (OtpPost(s, e, c) /\ HasRow(users, e) /\ users[e].otp = "") =>
              /\ last'.result \in {"Missing email or OTP", "Invalid OTP"}
              /\ sessions' = sessions
              /\ users' = users
     /\ \A e \in DOMAIN users :
          (users[e].otp = "" /\ HasRow(users', e) /\ users'[e].otp # "") =>
            CodeIssued]_vars

\* C27 witness: every account has consumed a code and holds the empty
\* code, a session is logged in, and a verification naming one of these
\* accounts was just answered "Invalid OTP".
C27_Witness ==
  /\ last.op = "POST /login/otp"
  /\ last.result = "Invalid OTP"
  /\ DOMAIN users = Emails
  /\ \A e \in Emails : users[e].otp = "" /\ consumed[e] # {}
  /\ \E s \in Sessions : sessions[s].userEmail # ""

(***************************************************************************)
(* The report request with its run.  POST /warranty-check reads the        *)
(* account, starts runWarrantyCheck and waits for it (`await`); the run is *)
(* the step machine above; the handler goes on when the run has returned   *)
(* or thrown.  One report request is in progress at a time, and a browser  *)
(* session sends its next request when the previous one was answered; the  *)
(* requests of the other session are handled in between.                   *)
(***************************************************************************)
\* csvLines.join('\n')
RECURSIVE JoinLines(_)
JoinLines(lines) ==
  IF Len(lines) = 0 THEN ""
  ELSE IF Len(lines) = 1 THEN CsvLine(lines[1])
  ELSE CsvLine(lines[1]) \o "\n" \o JoinLines(Tail(lines))

\* The session has a POST /warranty-check waiting for its run.
Waiting(s) == report.request.session = s

\* A request that is not a report request was handled: a session whose
\* lastCsv is gone has no report any more.
OtherRequest ==
  /\ report' = [report EXCEPT
                  !.producedAs = [x \in Sessions |->
                                    IF sessions'[x].lastCsv = ""
                                    THEN "" ELSE report.producedAs[x]]]
  /\ UNCHANGED << history, crypto, run, mail >>

\* POST /warranty-check up to `await runWarrantyCheck(...)`: refused, or the
\* run is called with the decrypted client id and secret.
ReportStart(s) ==
  /\ report.request.session = ""
  /\ IF ~requireLogin(s)
     THEN /\ last' = Response("POST /warranty-check", "redirect /login",
                              NoPayload)
          /\ UNCHANGED << run, report >>
     ELSE LET email == sessions[s].userEmail
              user == getDecryptedUser(users, email)
          IN  IF ~HasRow(users, email)
              THEN /\ last' = Response("POST /warranty-check",
                                       "redirect /login, no user found",
                                       NoPayload)
                   /\ UNCHANGED << run, report >>
              ELSE IF Falsy(user.peplink_client_id)
                        \/ Falsy(user.peplink_client_secret)
              THEN /\ last' = Response("POST /warranty-check",
                                       "Missing Peplink credentials",
                                       NoPayload)
                   /\ UNCHANGED << run, report >>
              ELSE /\ run' = RunStart
                   /\ report' = [report EXCEPT !.request =
                                   [session |-> s, account |-> email,
                                    clientId |-> user.peplink_client_id,
                                    clientSecret |-> user.peplink_client_secret]]
                   /\ UNCHANGED last
  /\ UNCHANGED << users, sessions, now, history, crypto, mail >>

\* The run returned: req.session.lastCsv = csv; redirect to the results.
ReportDone ==
  /\ report.request.session # ""
  /\ run.pc = "done"
  /\ LET s == report.request.session
     IN  /\ sessions' = [sessions EXCEPT ![s].lastCsv = JoinLines(run.result)]
         /\ report' = [request |-> NoRequest,
                       producedAs |-> [report.producedAs EXCEPT
                                         ![s] = report.request.account]]
  /\ last' = Response("POST /warranty-check",
                      "redirect /warranty-check/results",
                      << report.request.clientId, report.request.clientSecret >>)
  /\ run' = RunOff
  /\ UNCHANGED << users, now, history, crypto, mail >>

\* A failed run that also forgets the report the session had.
ReportFailed_ClearsReport ==
  /\ report.request.session # ""
  /\ run.pc = "failed"
  /\ sessions' = [sessions EXCEPT ![report.request.session].lastCsv = ""]
  /\ last' = Response("POST /warranty-check", "Error running warranty check",
                      << report.request.clientId, report.request.clientSecret >>)
  /\ report' = [report EXCEPT !.request = NoRequest]
  /\ run' = RunOff
  /\ UNCHANGED << users, now, history, crypto, mail >>

\* The run threw: the catch block answers with the error page.
ReportFailed ==
  /\ report.request.session # ""
  /\ run.pc = "failed"
  /\ last' = Response("POST /warranty-check", "Error running warranty check",
                      << report.request.clientId, report.request.clientSecret >>)
  /\ report' = [report EXCEPT !.request = NoRequest]
  /\ run' = RunOff
  /\ UNCHANGED << users, sessions, now, history, crypto, mail >>

ReportCodes == {"AB"}
ReportForms == {FilledForm}
ReportNow == Instant(Date(2024, 12, 1), 1)
ReportTokens == {Ok("string", "tok"), Status}
ReportOrgs == {Status, Ok("array", << Acme >>)}
ReportDevices ==
  {Status,
   Ok("array", << [sn |-> SerialAB12, expiry_date |-> Date(2025, 1, 10),
                   expired |-> FALSE] >>)}

NextReport ==
  \/ \E s \in Sessions, e \in Emails, c \in ReportCodes :
       ~Waiting(s) /\ LoginPost(s, e, c) /\ OtherRequest
  \/ \E s \in Sessions, e \in Emails, c \in ReportCodes :
       ~Waiting(s) /\ OtpPost(s, e, c) /\ OtherRequest
  \/ \E s \in Sessions : ~Waiting(s) /\ Logout(s) /\ OtherRequest
  \/ \E s \in Sessions, f \in ReportForms :
       ~Waiting(s) /\ PanelPost(s, f) /\ OtherRequest
  \/ \E s \in Sessions : ~Waiting(s) /\ ResultsGet(s) /\ OtherRequest
  \/ \E s \in Sessions : ~Waiting(s) /\ DownloadGet(s) /\ OtherRequest
  \/ \E s \in Sessions : ReportStart(s)
  \/ Send
  \/ \E res \in ReportTokens : FetchToken(res)
  \/ \E res \in ReportOrgs : FetchOrgs(res, ReportNow)
  \/ \E res \in ReportDevices : FetchDevices(res)
  \/ ReportDone
  \/ ReportFailed

SpecReport == Init /\ [][NextReport]_vars

\* The report request of session s is refused for an empty client id or
\* client secret.
Refused(s) ==
  /\ requireLogin(s)
  /\ HasRow(users, sessions[s].userEmail)
  /\ \/ Falsy(getDecryptedUser(users, sessions[s].userEmail).peplink_client_id)
     \/ Falsy(getDecryptedUser(users, sessions[s].userEmail).peplink_client_secret)
  /\ ReportStart(s)

\* C28: the report a session is served by the results view or the download
\* was produced by a run made while the session was authenticated as the
\* account it is authenticated as now.
C28_ReportOfCurrentAccount ==
  [][last'.op \in {"GET /warranty-check/results",
                   "GET /warranty-check/download"} =>
       \A s \in Sessions :
         (/\ ResultsGet(s) \/ DownloadGet(s)
          /\ requireLogin(s)
          /\ sessions[s].lastCsv # "") =>
           report.producedAs[s] = sessions[s].userEmail]_vars

C29_WitnessRefused ==
  /\ last.op = "POST /warranty-check"
  /\ last.result = "Missing Peplink credentials"
  /\ run = RunOff
  /\ \E s \in Sessions :
       /\ sessions[s].lastCsv # ""
       /\ \A o \in Sessions \ {s} : sessions[o].userEmail = ""
====
